---- MODULE Spec2Model ----
(***************************************************************************)
(* A model of the slcb-docker daemon (src/TMHK-docker/daemon/daemon):      *)
(* the HTTP boundary and its shared-secret handshake (http.py), the        *)
(* nonce-matched outbound RPC flow (http.py put_request / inbound_ack /    *)
(* outbound), and the plugin manager with its listener tables and event    *)
(* dispatch (manager.py, interface.py).                                    *)
(*                                                                         *)
(* Absent values (Python None) are the string "None" for string-valued     *)
(* fields and 0 for integer-valued ones (nonces, challenge tokens).        *)
(***************************************************************************)
EXTENDS Integers, Sequences, FiniteSets, TLC

None == "None"

\* ------------------------------------------------------------------ bounds
\* outbound calls issued in one run
MaxCalls == 2
\* {nonce, response} pairs carried by one /inbound-ack request
MaxAckPairs == 2
\* /kill requests accepted in one run
MaxKills == 1
\* plugin directories under plugins/
NumDirs == 2
\* plugin ids generated (uuid4) in one run
MaxGen == 2
\* injector instances created by plugin initialization in one run
MaxInj == 3
\* event requests (/inbound, /inbound/parse, /inbound/button) in one run
MaxEvents == 1
\* entries one event's list of a listener table may reach through load_injector
MaxAttach == 2
\* seconds up to which the age of the client's stamp and of the last poll are
\* counted (above every threshold of main's loop)
MaxAge == 65

\* ------------------------------------------------------------------ inputs
\* candidate secrets the adapter may post to /auth, and bearer header values
Codes == {"c1", "c2"}
NoHeader == "absent"
Headers == Codes \cup {NoHeader}
\* values of the `code` query parameter of /kill
KillCodes == {"k1", "k2"}
NoCode == "absent"
\* responses the adapter may acknowledge a call with
Responses == {"r1", "r2"}
\* host API named by an outbound payload
PayloadTypes == {"GetPoints"}
\* plugin ids the adapter may supply without having learned them from the daemon
SuppliedIds == {"a"}
\* the k-th id uuid4 generates in a run (fresh, never a supplied or persisted id)
GenId(k) == CASE k = 1 -> "g1" [] k = 2 -> "g2" [] k = 3 -> "g3" [] OTHER -> "g4"
\* event names of the listener tables
Events == {"message", "raw_message", "parse", "button", "unload", "error"}
\* the state of a directory's plugin.json
ManifestStates == {"missing", "corrupt", "nokey", "ok"}
\* what importing (or re-importing) the entry unit does, and what its init does:
\* raise before attaching its injector, attach and raise, or attach and return
ImportOutcomes == {"ok", "raise"}
InitOutcomes == {"ok", "raise_before", "raise_after"}
Dirs == 1..NumDirs
\* a directory as first dropped under plugins/, and as an earlier daemon run
\* left it (renamed to the id that run generated, which its marker file holds)
InitialName(d) == CASE d = 1 -> "d1" [] d = 2 -> "d2" [] OTHER -> "d3"
PersistedId(d) == CASE d = 1 -> "p1" [] d = 2 -> "p2" [] OTHER -> "p3"
\* the events the entry unit of directory d declares with Injector.listen
Declares(d) == CASE d = 1 -> {"message", "parse", "button", "unload"}
                 [] d = 2 -> {"message", "raw_message", "parse"}
                 [] OTHER -> {"message"}
\* command lines the daemon process may be started with (sys.argv)
ArgvChoices == { <<"init.py", "k1">>, <<"init.py", "x", "k1">> }

VARIABLES
  kill_code,        \* http.py module global kill_code
  auth,             \* HTTPHandler._auth
  auth_state,       \* HTTPHandler._auth_state
  auth_event,       \* HTTPHandler._auth_event is set
  challenge,        \* HTTPHandler.challenge (0 = None)
  nChal,            \* challenge tokens generated so far
  site,             \* HTTPHandler.__site / __runner are active
  main_pc,          \* position of init.main
  kill_sched,       \* teardown tasks scheduled by /kill, each TRUE = graceful
  task_exc,         \* exception that escaped the last teardown task
  watch,            \* what main's loop reads: the client lockfile (lock, and the
                    \* age in seconds of the stamp it holds) and
                    \* HTTPHandler.last_poll (polled: not None, and its age)
  resp,             \* the last HTTP response, with the request it answers
  calls,            \* every put_request issued: its coroutine and its future
  nonces,           \* HTTPHandler.nonces (the pending table), as its key set
  waiting_for_poll, \* HTTPHandler.waiting_for_poll
  ackSeen,          \* history: response of the first acknowledgement pair that
                    \* reached the daemon for a call before its deadline
  queued,           \* history: every entry appended to waiting_for_poll, in order
  delivered,        \* history: every entry a poll response carried, in order
  dirs,             \* the directories under plugins/: name, plugin.json,
                    \* .__dock_store content (None: no file), init.py present
  plugins,          \* PluginManager.plugins, in insertion order
  inject_listeners, \* Injector.__inject_listeners__ (0: no entry), by owner
  sys_modules,      \* names of the plugin entry units in sys.modules
  nGen,             \* ids generated so far
  nInj,             \* injector instances created so far
  lastOp,           \* history: the last manager operation and its outcome
  lastIface,        \* history: the last call plugin code made on its Interface
  inflight,         \* the load and reload requests suspended inside a plugin's
                    \* init, oldest first
  tasks,            \* the tasks the event loop holds for dispatch, oldest first
  invoked,          \* history: the listener invocations made, in order
  nEvents,          \* event requests accepted so far
  lastDisp          \* history: the last parse or button request and its outcome

sessVars == <<kill_code, auth, auth_state, auth_event, challenge, nChal, site,
              main_pc, kill_sched, task_exc>>
authVars == <<sessVars, watch>>
rpcVars  == <<calls, nonces, waiting_for_poll, ackSeen, queued, delivered>>
plugVars == <<dirs, plugins, inject_listeners, sys_modules, nGen, nInj, lastOp,
              lastIface, inflight>>
dispVars == <<tasks, invoked, nEvents, lastDisp>>
vars     == <<authVars, rpcVars, plugVars, dispVars, resp>>

\* ---------------------------------------------------------------- helpers
\* Python truthiness of an optional string
Truthy(x) == x \notin {None, ""}

\* an HTTP response together with the request it answers and the session
\* (state, secret) the request met; code: the `code` the request carried (the
\* body of /auth, the query of /kill); chal: the challenge the request carried
\* (/pingpong) or the response returns (/auth); queue: the entries the
\* response carries (/outbound)
Response(route, hdr, status, body) ==
  [route |-> route, hdr |-> hdr, status |-> status, body |-> body,
   at |-> auth_state, secret |-> auth, code |-> None, chal |-> 0, queue |-> <<>>]

NoResponse == [route |-> None, hdr |-> NoHeader, status |-> 0, body |-> None,
               at |-> None, secret |-> None, code |-> None, chal |-> 0,
               queue |-> <<>>]

\* sys.argv[2] if len(sys.argv) >= 3 else None   (argv is 0-indexed in Python)
KillCodeOf(argv) == IF Len(argv) >= 3 THEN argv[3] ELSE None

\* the bearer guard that opens the guarded handlers:
\*   "Authorization" not in request.headers or headers["Authorization"] != self._auth
\* is the rejection; this is its negation
AuthorizedAnyHeader(h) == h # NoHeader
Authorized(h) == h # NoHeader /\ h = auth

Unauthorized(route, h) == Response(route, h, 401, "error")

\* ------------------------------------------------------- plugin data model
DirNames == {InitialName(d) : d \in 1..(NumDirs + 1)}
PersistedIds == {PersistedId(d) : d \in 1..(NumDirs + 1)}
DirStates == [name : DirNames \cup PersistedIds, manifest : ManifestStates,
              store : {None} \cup PersistedIds, hasInit : BOOLEAN]
InitialDirStates(d) ==
  { s \in DirStates :
      \/ s.name = InitialName(d) /\ s.store = None
      \/ s.name = PersistedId(d) /\ s.store = PersistedId(d) }

\* Plugin._listeners: a key is present when its list is not empty
NoListeners == [e \in Events |-> <<>>]

\* Plugin.__init__; pd names the directory whose code the object runs
NewPlugin(d, w) ==
  [pd |-> d, directory |-> w.dirs[d].name, has_meta |-> FALSE, script_id |-> None,
   module |-> FALSE, listeners |-> NoListeners, is_loaded |-> FALSE,
   enabled |-> FALSE, injectors |-> {}]

NoDisp == [op |-> None, sid |-> None, typeOk |-> FALSE, string |-> <<>>,
           fails |-> {}, text |-> <<>>, n0 |-> 0, t0 |-> 0]

\* what is remembered of the operation before the last one
Brief(o) == [op |-> o.op, sid |-> o.sid, kind |-> o.kind, was_loaded |-> o.was_loaded]

NoOp == [op |-> None, arg_id |-> None, d |-> 0, manifest |-> None, hasInit |-> FALSE,
         store |-> None, before |-> {}, kind |-> None, sid |-> None, exc |-> None,
         inits |-> 0, inj |-> 0, fail |-> None, was_loaded |-> FALSE,
         prev |-> [op |-> None, sid |-> None, kind |-> None, was_loaded |-> FALSE]]

\* the lockfile as the adapter's Init has just written it (write_stamp), and
\* no poll made yet
Watch0 == [lock |-> "stamp", stamp_age |-> 0, polled |-> FALSE, poll_age |-> 0]

NoIface == [op |-> None, sid |-> None, inj |-> 0, exc |-> None, attached |-> {},
            before |-> NoListeners]

\* ------------------------------------------------------------------- Init
Init ==
  /\ kill_code \in { KillCodeOf(a) : a \in ArgvChoices }
  /\ auth = None
  /\ auth_state = None
  /\ auth_event = FALSE
  /\ challenge = 0
  /\ nChal = 0
  /\ site = FALSE
  /\ main_pc = "new"
  /\ kill_sched = <<>>
  /\ task_exc = None
  /\ watch = Watch0
  /\ resp = NoResponse
  /\ calls = <<>>
  /\ nonces = {}
  /\ waiting_for_poll = <<>>
  /\ ackSeen = [n \in 1..(MaxCalls + 1) |-> None]
  /\ queued = <<>>
  /\ delivered = <<>>
  /\ dirs \in [Dirs -> DirStates]
  /\ \A d \in Dirs : dirs[d] \in InitialDirStates(d)
  /\ plugins = <<>>
  /\ inject_listeners = [e \in Events |-> 0]
  /\ sys_modules = {}
  /\ nGen = 0
  /\ nInj = 0
  /\ lastOp = NoOp
  /\ lastIface = NoIface
  /\ inflight = <<>>
  /\ tasks = <<>>
  /\ invoked = <<>>
  /\ nEvents = 0
  /\ lastDisp = NoDisp

\* ------------------------------------------------------ startup (init.main)
\* HTTPHandler.setup
Setup ==
  /\ main_pc = "new"
  /\ main_pc' = "setup"
  /\ auth_state' = "WaitingForClient"
  /\ UNCHANGED <<watch, kill_code, auth, auth_event, challenge, nChal, site,
                 kill_sched, task_exc, rpcVars, plugVars, dispVars, resp>>

\* HTTPHandler.start_service
StartService ==
  /\ main_pc = "setup"
  /\ main_pc' = "waiting"
  /\ site' = TRUE
  /\ auth_state' = "PendingPingPong"
  /\ UNCHANGED <<watch, kill_code, auth, auth_event, challenge, nChal,
                 kill_sched, task_exc, rpcVars, plugVars, dispVars, resp>>

\* end_service leaving the stored secret in place
EndServiceKeepsSecret ==
  /\ site' = FALSE
  /\ auth_state' = "Closing"
  /\ auth' = auth

\* HTTPHandler.end_service: the state it leaves, when a listener is active
EndServiceEffect ==
  /\ site' = FALSE
  /\ auth_state' = "Closing"
  /\ auth' = None

\* main without its test of the state after wait_for_pingpong
WaitForPingPongThenServe ==
  /\ main_pc = "waiting"
  /\ auth_event
  /\ main_pc' = "serving"
  /\ UNCHANGED <<watch, kill_code, auth, auth_state, auth_event, challenge, nChal, site,
                 kill_sched, task_exc, rpcVars, plugVars, dispVars, resp>>

\* HTTPHandler.wait_for_pingpong returns to main: the event it waits on was
\* set. main enters its serving loop if the state is AuthOK, else it starts
\* end_service(error=False)
WaitForPingPong ==
  /\ main_pc = "waiting"
  /\ auth_event
  /\ main_pc' = IF auth_state = "AuthOK" THEN "serving" ELSE "aborting"
  /\ UNCHANGED <<watch, kill_code, auth, auth_state, auth_event, challenge, nChal, site,
                 kill_sched, task_exc, rpcVars, plugVars, dispVars, resp>>

\* the timeout of wait_for_pingpong elapses with the event not set:
\* asyncio.TimeoutError reaches main, which sets PingPongFailed and starts
\* end_service(error=False)
PingPongTimeout ==
  /\ main_pc = "waiting"
  /\ ~auth_event
  /\ auth_state' = "PingPongFailed"
  /\ main_pc' = "aborting"
  /\ UNCHANGED <<watch, kill_code, auth, auth_event, challenge, nChal, site,
                 kill_sched, task_exc, rpcVars, plugVars, dispVars, resp>>

\* end_service(error=False) as main calls it to abort the startup: the runner
\* is cleaned up and the listener dropped; with no listener active it returns
AbortStartup ==
  /\ main_pc = "aborting"
  /\ main_pc' = "done"
  /\ IF site THEN EndServiceEffect ELSE UNCHANGED <<site, auth_state, auth>>
  /\ UNCHANGED <<watch, kill_code, auth_event, challenge, nChal,
                 kill_sched, task_exc, rpcVars, plugVars, dispVars, resp>>

\* main from the end of start_service to its serving loop or its return
Startup ==
  \/ WaitForPingPong
  \/ PingPongTimeout
  \/ AbortStartup

\* ------------------------------------------------------------ the handshake
\* HTTPHandler.route_version
RouteVersion(h) ==
  /\ site
  /\ resp' = Response("/version", h, 200, "version")
  /\ UNCHANGED <<authVars, rpcVars, plugVars, dispVars>>

\* route_auth without its test of the stored secret
RouteAuthReplaces(h, code) ==
  /\ site
  /\ auth' = code
  /\ auth_state' = "PendingPingPong"
  /\ nChal' = nChal + 1
  /\ challenge' = nChal + 1
  /\ resp' = [Response("/auth", h, 200, "challenge")
                EXCEPT !.code = code, !.chal = nChal + 1]
  /\ UNCHANGED <<watch, kill_code, auth_event, site, main_pc, kill_sched, task_exc, rpcVars, plugVars, dispVars>>

\* HTTPHandler.route_auth
RouteAuth(h, code) ==
  /\ site
  /\ IF Truthy(auth)
       THEN /\ resp' = [Response("/auth", h, 401, "Auth already set")
                          EXCEPT !.code = code]
            /\ UNCHANGED <<auth, auth_state, challenge, nChal>>
       ELSE /\ auth' = code
            /\ auth_state' = "PendingPingPong"
            /\ nChal' = nChal + 1
            /\ challenge' = nChal + 1
            /\ resp' = [Response("/auth", h, 200, "challenge")
                          EXCEPT !.code = code, !.chal = nChal + 1]
  /\ UNCHANGED <<watch, kill_code, auth_event, site, main_pc, kill_sched, task_exc, rpcVars, plugVars, dispVars>>

\* route_pingpong without the set() of the event on a mismatch
RoutePingPongQuietMismatch(h, ch) ==
  /\ site
  /\ IF ~Authorized(h)
       THEN /\ resp' = Unauthorized("/pingpong", h)
            /\ UNCHANGED <<auth_state, auth_event>>
       ELSE IF challenge = 0
         THEN /\ resp' = [Response("/pingpong", h, 404, None) EXCEPT !.chal = ch]
              /\ UNCHANGED <<auth_state, auth_event>>
         ELSE IF ch # challenge
           THEN /\ auth_state' = "ClientServerMismatch"
                /\ UNCHANGED auth_event
                /\ resp' = [Response("/pingpong", h, 400, "Failed pingpong")
                              EXCEPT !.chal = ch]
           ELSE /\ auth_state' = "AuthOK"
                /\ auth_event' = TRUE
                /\ resp' = [Response("/pingpong", h, 204, None) EXCEPT !.chal = ch]
  /\ UNCHANGED <<watch, kill_code, auth, challenge, nChal, site, main_pc, kill_sched,
                 task_exc, rpcVars, plugVars, dispVars>>

\* HTTPHandler.route_pingpong; ch is the posted challenge (0: a value the
\* daemon never generated)
RoutePingPong(h, ch) ==
  /\ site
  /\ IF ~Authorized(h)
       THEN /\ resp' = Unauthorized("/pingpong", h)
            /\ UNCHANGED <<auth_state, auth_event>>
       ELSE IF challenge = 0
         THEN /\ resp' = [Response("/pingpong", h, 404, None) EXCEPT !.chal = ch]
              /\ UNCHANGED <<auth_state, auth_event>>
         ELSE IF ch # challenge
           THEN /\ auth_state' = "ClientServerMismatch"
                /\ auth_event' = TRUE
                /\ resp' = [Response("/pingpong", h, 400, "Failed pingpong")
                              EXCEPT !.chal = ch]
           ELSE /\ auth_state' = "AuthOK"
                /\ auth_event' = TRUE
                /\ resp' = [Response("/pingpong", h, 204, None) EXCEPT !.chal = ch]
  /\ UNCHANGED <<watch, kill_code, auth, challenge, nChal, site, main_pc, kill_sched,
                 task_exc, rpcVars, plugVars, dispVars>>

\* HTTPHandler.route_kill_override; code is the `code` query parameter
RouteKill(h, code, graceful) ==
  /\ site
  /\ Len(kill_sched) < MaxKills
  /\ IF ~Truthy(kill_code)
       THEN /\ resp' = [Response("/kill", h, 401, "killcode not provided on startup")
                          EXCEPT !.code = code]
            /\ UNCHANGED kill_sched
       ELSE IF code = NoCode \/ code # kill_code
         THEN /\ resp' = [Response("/kill", h, 401, "missing code") EXCEPT !.code = code]
              /\ UNCHANGED kill_sched
         ELSE /\ kill_sched' = Append(kill_sched, graceful)
              /\ resp' = [Response("/kill", h, 204, None) EXCEPT !.code = code]
  /\ UNCHANGED <<watch, kill_code, auth, auth_state, auth_event, challenge, nChal, site,
                 main_pc, task_exc, rpcVars, plugVars, dispVars>>

\* PluginManager.graceful_shutdown: its body is `...`; the registry it leaves
GracefulShutdown(reg) == reg

\* PluginManager.evict_plugins: its body is `...`; the registry it leaves
EvictPlugins(reg) == reg

\* seconds main's loop sleeps before each look at the client
LoopSleep == 5

Min2(a, b) == IF a < b THEN a ELSE b

\* what the loop reads after its sleep: the stamp and the last poll are
\* LoopSleep seconds older
Aged(w) ==
  [w EXCEPT !.stamp_age = IF w.lock = "stamp" THEN Min2(@ + LoopSleep, MaxAge) ELSE 0,
            !.poll_age = IF w.polled THEN Min2(@ + LoopSleep, MaxAge) ELSE 0]

\* client_update = now - (read_client_lockfile() or now): read_client_lockfile
\* returns None for a missing file and for content that is not an integer
ClientUpdate(w) == IF w.lock = "stamp" THEN w.stamp_age ELSE 0

\* last_poll = now - (http.last_poll or now - 60)
LastPoll(w) == IF w.polled THEN w.poll_age ELSE 60

\* the test main's loop breaks on
ConsideredOffline(w) ==
  ClientUpdate(w) > 60 \/ (ClientUpdate(w) > 30 /\ LastPoll(w) > 10)

\* one turn of main's serving loop that does not break
WatchLoop ==
  /\ main_pc = "serving"
  /\ ~ConsideredOffline(Aged(watch))
  /\ watch' = Aged(watch)
  /\ UNCHANGED <<sessVars, rpcVars, plugVars, dispVars, resp>>

\* the adapter's Tick renewing its stamp (write_stamp), which it does when its
\* last one is more than 30 seconds old
WriteStamp ==
  /\ watch.lock # "stamp" \/ watch.stamp_age > 30
  /\ watch' = [watch EXCEPT !.lock = "stamp", !.stamp_age = 0]
  /\ UNCHANGED <<sessVars, rpcVars, plugVars, dispVars, resp>>

\* HTTPHandler.outbound's `self.last_poll = int(time.time())`
Polled(w) == [w EXCEPT !.polled = TRUE, !.poll_age = 0]

\* the turn of main's serving loop that finds the client offline (no lockfile
\* update, no poll) and breaks: end_service() with its default error=True,
\* whose RuntimeError ends main when no listener is active, then
\* graceful_shutdown
ClientOffline ==
  /\ main_pc = "serving"
  /\ ConsideredOffline(Aged(watch))
  /\ watch' = Aged(watch)
  /\ IF site
       THEN /\ EndServiceEffect
            /\ plugins' = GracefulShutdown(plugins)
            /\ main_pc' = "done"
       ELSE /\ main_pc' = "raised"
            /\ UNCHANGED <<site, auth_state, auth, plugins>>
  /\ UNCHANGED <<kill_code, auth_event, challenge, nChal, kill_sched, task_exc,
                 rpcVars, dirs, inject_listeners, sys_modules, nGen, nInj, lastOp,
                 lastIface, inflight, dispVars, resp>>

\* the task route_kill_override schedules (to_call), one second later:
\* graceful: graceful_shutdown(), then end_service();
\* otherwise: evict_plugins(), end_service(), then end_service() again,
\* whose second call finds no active server and raises RuntimeError
KillTask ==
  /\ kill_sched # <<>>
  /\ kill_sched' = Tail(kill_sched)
  /\ plugins' = IF Head(kill_sched) THEN GracefulShutdown(plugins)
                                     ELSE EvictPlugins(plugins)
  /\ IF site
       THEN /\ EndServiceEffect
            /\ task_exc' = IF Head(kill_sched) THEN None ELSE "RuntimeError"
       ELSE /\ task_exc' = "RuntimeError"
            /\ UNCHANGED <<site, auth_state, auth>>
  /\ UNCHANGED <<watch, kill_code, auth_event, challenge, nChal, main_pc, rpcVars,
                 dirs, inject_listeners, sys_modules, nGen, nInj, lastOp,
                 lastIface, inflight, dispVars, resp>>

\* HTTPHandler.route_ensure_auth
RouteEnsureAuth(h) ==
  /\ site
  /\ resp' = IF ~Authorized(h) THEN Unauthorized("/authcheck", h)
                               ELSE Response("/authcheck", h, 204, None)
  /\ UNCHANGED <<authVars, rpcVars, plugVars, dispVars>>

\* ------------------------------------------------------------ outbound RPC
\* a call just issued: its coroutine waits on a pending future
NewCall == [st |-> "waiting", fut |-> "pending", val |-> None, ret |-> None]

\* put_request drawing the same nonce for every call
PutRequestSameNonce(p) ==
  /\ Len(calls) < MaxCalls
  /\ calls' = Append(calls, NewCall)
  /\ nonces' = nonces \cup {1}
  /\ waiting_for_poll' = Append(waiting_for_poll, [nonce |-> 1, data |-> p])
  /\ queued' = Append(queued, [nonce |-> 1, data |-> p])
  /\ UNCHANGED <<authVars, plugVars, dispVars, ackSeen, delivered, resp>>

\* HTTPHandler.put_request up to its await: a fresh uuid4 nonce, a future in the
\* pending table, and one entry at the end of the outbound queue
IssueCall(p) ==
  LET n == Len(calls) + 1 IN
    /\ calls' = Append(calls, NewCall)
    /\ nonces' = nonces \cup {n}
    /\ waiting_for_poll' = Append(waiting_for_poll, [nonce |-> n, data |-> p])
    /\ queued' = Append(queued, [nonce |-> n, data |-> p])

\* put_request as a plugin's code or the daemon's calls it
PutRequest(p) ==
  /\ Len(calls) < MaxCalls
  /\ IssueCall(p)
  /\ UNCHANGED <<authVars, plugVars, dispVars, ackSeen, delivered, resp>>

\* put_request's handler around the wait: `except asyncio.CancelledError` removes
\* the nonce and returns None; any other exception leaves the coroutine as it is
PutRequestExcept(n, exc) ==
  IF exc = "CancelledError"
    THEN /\ calls' = [calls EXCEPT ![n].st = "returned", ![n].fut = "cancelled",
                                   ![n].ret = None]
         /\ nonces' = nonces \ {n}
    ELSE /\ calls' = [calls EXCEPT ![n].st = "raised", ![n].fut = "cancelled",
                                   ![n].ret = exc]
         /\ UNCHANGED nonces

\* the deadline of call n passes with its future unresolved: asyncio.wait_for
\* cancels the future and raises asyncio.TimeoutError into put_request
Timeout(n) ==
  /\ n \in 1..Len(calls)
  /\ calls[n].st = "waiting"
  /\ calls[n].fut = "pending"
  /\ PutRequestExcept(n, "TimeoutError")
  /\ UNCHANGED <<authVars, plugVars, dispVars, waiting_for_poll, ackSeen, queued,
                 delivered, resp>>

\* put_request after its await: the resolved future's result is returned
Resume(n) ==
  /\ n \in 1..Len(calls)
  /\ calls[n].st = "waiting"
  /\ calls[n].fut = "result"
  /\ calls' = [calls EXCEPT ![n].st = "returned", ![n].ret = calls[n].val]
  /\ UNCHANGED <<authVars, plugVars, dispVars, nonces, waiting_for_poll, ackSeen,
                 queued, delivered, resp>>

\* inbound_ack's step for one pair whose nonce is in the pending table:
\*   fut = self.nonces.pop(nonce); fut.set_result(response)
\* set_result on a future that is no longer pending raises InvalidStateError
AckMatched(msg, ns, cs) ==
  IF cs[msg.nonce].fut = "pending"
    THEN [nonces |-> ns \ {msg.nonce},
          calls |-> [cs EXCEPT ![msg.nonce].fut = "result", ![msg.nonce].val = msg.response],
          exc |-> None]
    ELSE [nonces |-> ns \ {msg.nonce}, calls |-> cs, exc |-> "InvalidStateError"]

\* inbound_ack's loop over the pairs of one request
RECURSIVE AckLoop(_, _, _)
AckLoop(data, ns, cs) ==
  IF data = <<>> THEN [nonces |-> ns, calls |-> cs, exc |-> None]
  ELSE LET msg == Head(data) IN
    IF msg.nonce \in ns
      THEN LET r == AckMatched(msg, ns, cs) IN
             IF r.exc # None THEN r ELSE AckLoop(Tail(data), r.nonces, r.calls)
      ELSE AckLoop(Tail(data), ns, cs)   \* logged: response for unknown nonce

\* the {nonce, response} pairs one /inbound-ack request may carry; nonce
\* MaxCalls + 1 is never issued
AckPairs == [nonce : 1..(MaxCalls + 1), response : Responses]
AckBodies == UNION { [1..k -> AckPairs] : k \in 1..MaxAckPairs }

\* history: the first pair of `data` that names call n, when the request reaches
\* the handler while n is issued and its deadline has not passed
FirstPairFor(data, n) ==
  LET idx == { i \in 1..Len(data) : data[i].nonce = n } IN
    IF idx = {} THEN None
    ELSE data[CHOOSE i \in idx : \A j \in idx : i <= j].response

BeforeDeadline(n) ==
  /\ n \in 1..Len(calls)
  /\ ~(calls[n].fut = "cancelled")

\* HTTPHandler.inbound_ack
InboundAck(h, data) ==
  /\ site
  /\ IF ~Authorized(h)
       THEN /\ resp' = Unauthorized("/inbound-ack", h)
            /\ UNCHANGED <<calls, nonces, ackSeen>>
       ELSE LET r == AckLoop(data, nonces, calls) IN
            /\ calls' = r.calls
            /\ nonces' = r.nonces
            /\ ackSeen' = [n \in DOMAIN ackSeen |->
                             IF ackSeen[n] = None /\ BeforeDeadline(n)
                               THEN FirstPairFor(data, n) ELSE ackSeen[n]]
            /\ resp' = IF r.exc = None
                         THEN Response("/inbound-ack", h, 204, None)
                         ELSE Response("/inbound-ack", h, 500, r.exc)
  /\ UNCHANGED <<authVars, plugVars, dispVars, waiting_for_poll, queued, delivered>>

\* outbound clearing the queue before it looks at the header
OutboundClearsFirst(h) ==
  /\ site
  /\ waiting_for_poll' = <<>>
  /\ IF ~Authorized(h)
       THEN /\ resp' = Unauthorized("/outbound", h)
            /\ UNCHANGED watch
            /\ UNCHANGED delivered
       ELSE /\ resp' = [Response("/outbound", h, 200, "queue")
                          EXCEPT !.queue = waiting_for_poll]
            /\ delivered' = delivered \o waiting_for_poll
            /\ watch' = Polled(watch)
  /\ UNCHANGED <<sessVars, plugVars, dispVars, calls, nonces, ackSeen, queued>>

\* outbound without the clear() of the queue
OutboundKeepsQueue(h) ==
  /\ site
  /\ IF ~Authorized(h)
       THEN /\ resp' = Unauthorized("/outbound", h)
            /\ UNCHANGED watch
            /\ UNCHANGED delivered
       ELSE /\ resp' = [Response("/outbound", h, 200, "queue")
                          EXCEPT !.queue = waiting_for_poll]
            /\ delivered' = delivered \o waiting_for_poll
            /\ watch' = Polled(watch)
  /\ UNCHANGED <<sessVars, plugVars, dispVars, calls, nonces, ackSeen, queued,
                 waiting_for_poll>>

\* HTTPHandler.outbound: a copy of the queue is serialised into the response,
\* then the queue is cleared
Outbound(h) ==
  /\ site
  /\ IF ~Authorized(h)
       THEN /\ resp' = Unauthorized("/outbound", h)
            /\ UNCHANGED watch
            /\ UNCHANGED <<waiting_for_poll, delivered>>
       ELSE /\ resp' = [Response("/outbound", h, 200, "queue")
                          EXCEPT !.queue = waiting_for_poll]
            /\ delivered' = delivered \o waiting_for_poll
            /\ watch' = Polled(watch)
            /\ waiting_for_poll' = <<>>
  /\ UNCHANGED <<sessVars, plugVars, dispVars, calls, nonces, ackSeen, queued>>

\* a directory newly dropped under plugins/, complete and never loaded
FreshDir(d) == [name |-> InitialName(d), manifest |-> "ok", store |-> None,
                hasInit |-> TRUE]

\* the daemon as the adapter starts it (one positional argument), its plugin
\* directories complete and never loaded
InitPlain ==
  /\ Init
  /\ kill_code = KillCodeOf(<<"init.py", "k1">>)
  /\ dirs = [d \in Dirs |-> FreshDir(d)]

\* the handshake as the adapter performs it (_daemon_startup): its secret, then
\* the challenge it was given
AdapterHandshake ==
  \/ Setup
  \/ StartService
  \/ RouteAuth("c1", "c1")
  \/ RoutePingPong("c1", challenge)

\* the handshake as the adapter and any other local client may drive it
Handshake ==
  \/ Setup
  \/ StartService
  \/ \E h \in Headers, code \in Codes : RouteAuth(h, code)
  \/ \E h \in Headers, ch \in 0..1 : RoutePingPong(h, ch)

\* ------------------------------------------------------------ specifications
\* the outbound RPC flow; a rejected request is rejected whatever its body
NextRpc ==
  \/ AdapterHandshake
  \/ \E p \in PayloadTypes : PutRequest(p)
  \/ \E n \in 1..MaxCalls : Timeout(n)
  \/ \E n \in 1..MaxCalls : Resume(n)
  \/ \E h \in {"c1", NoHeader}, data \in AckBodies :
        (Authorized(h) \/ Len(data) = 1) /\ InboundAck(h, data)
  \/ \E h \in {"c1", NoHeader} : Outbound(h)

SpecRpc == InitPlain /\ [][NextRpc]_vars

\* ---------------------------------------------------------- plugin lifecycle
RegIds(reg) == { reg[i].script_id : i \in 1..Len(reg) }
RegIndex(reg, id) == CHOOSE i \in 1..Len(reg) : reg[i].script_id = id

\* self.plugins[id] = plug: a new key goes last, an existing key keeps its place
RegPut(reg, plug) ==
  IF plug.script_id \in RegIds(reg)
    THEN [reg EXCEPT ![RegIndex(reg, plug.script_id)] = plug]
    ELSE Append(reg, plug)

\* what lies outside the Plugin objects and the registry: the file system, the
\* class-level listener table of Injector, sys.modules, and the two id sources
World == [dirs |-> dirs, inject |-> inject_listeners, mods |-> sys_modules,
          nGen |-> nGen, nInj |-> nInj]

\* the body of directory d's entry unit runs: each @Injector.listen(name) stores
\* its handler under `name` in the table of the class Injector itself
ExecModule(d, inject) == [e \in Events |-> IF e \in Declares(d) THEN d ELSE inject[e]]

\* Plugin.try_load, first half: importlib.reload of the module the object holds,
\* else import_module, which runs the unit only if sys.modules does not hold it.
\* (On CPython 3.10, which the adapter starts, the traceback of a failing import
\* holds the importlib frame try_load looks for, so PluginLoadFailed is raised.)
ImportStep(plug, w, imp) ==
  IF plug.module
    THEN IF imp = "raise"
           THEN [exc |-> TRUE, plug |-> plug, w |-> w]
           ELSE [exc |-> FALSE, plug |-> plug,
                 w |-> [w EXCEPT !.inject = ExecModule(plug.pd, @)]]
    ELSE IF plug.directory \in w.mods
           THEN [exc |-> FALSE, plug |-> [plug EXCEPT !.module = TRUE], w |-> w]
           ELSE IF imp = "raise"
             THEN [exc |-> TRUE, plug |-> plug, w |-> w]
             ELSE [exc |-> FALSE, plug |-> [plug EXCEPT !.module = TRUE],
                   w |-> [w EXCEPT !.inject = ExecModule(plug.pd, @),
                                   !.mods = @ \cup {plug.directory}]]

\* Injector.__new__: the class table gets an "error" handler if it has none
InjectorNew(d, inject) ==
  IF inject["error"] = 0 THEN [inject EXCEPT !["error"] = d] ELSE inject

\* Plugin.add_listeners: every entry of the injector's table is appended
AddListeners(listeners, inj, table) ==
  [e \in Events |-> IF table[e] # 0
                      THEN Append(listeners[e], [inj |-> inj, h |-> table[e]])
                      ELSE listeners[e]]

\* Plugin.try_load, second half: module.init(self.interface). The entry unit's
\* init creates one injector and attaches it with Interface.load_injector
\* (Injector._setup, Plugin.add_listeners); it may raise before or after that.
InitStep(plug, w, ini) ==
  IF ini = "raise_before"
    THEN [exc |-> TRUE, plug |-> plug, w |-> w, inj |-> 0]
    ELSE LET inj == w.nInj + 1
             table == InjectorNew(plug.pd, w.inject)
         IN [exc |-> (ini = "raise_after"),
             plug |-> [plug EXCEPT !.listeners = AddListeners(@, inj, table),
                                   !.injectors = @ \cup {inj}],
             w |-> [w EXCEPT !.inject = table, !.nInj = inj],
             inj |-> inj]

\* Plugin.try_load; exc: PluginLoadFailed was raised, by the step `fail` names
TryLoad(plug, w, imp, ini) ==
  LET AfterInit(n) ==
        [exc |-> n.exc, fail |-> IF n.exc THEN "init" ELSE None,
         plug |-> n.plug, w |-> n.w, inits |-> 1, inj |-> n.inj]
      AfterImport(i) ==
        IF i.exc
          THEN [exc |-> TRUE, fail |-> "import", plug |-> i.plug, w |-> i.w,
                inits |-> 0, inj |-> 0]
          ELSE AfterInit(InitStep(i.plug, i.w, ini))
  IN AfterImport(ImportStep(plug, w, imp))

\* the body of an /inbound request: its type, whether its data is a raw event,
\* and whether its data carries every key the message constructors read
\* (one adapter sends service_type, the other does not)
InboundPayloads == [type : {0, 2}, is_raw : BOOLEAN, complete : BOOLEAN]
NoPayload == [type |-> 0, is_raw |-> FALSE, complete |-> FALSE]

\* a task of the event loop; st: "ready", "calling" (between two listeners),
\* "inside" (suspended inside a listener), "failed" (ended by an exception
\* nothing catches), "done"
Task(kind, ev, p, sid, event, todo, st) ==
  [kind |-> kind, ev |-> ev, p |-> p, sid |-> sid, event |-> event,
   todo |-> todo, st |-> st]

\* Plugin.call_listeners("unload") as eject_listeners awaits it: every unload
\* listener of the table is called, in order
UnloadCalls(plug) == plug.listeners["unload"]

\* the invocations that makes, and the tasks call_listeners starts for the
\* calls that raise (the n-th call raises when n is in ufails)
UnloadLog(sid, unl) ==
  [n \in 1..Len(unl) |-> [ev |-> 0, sid |-> sid, event |-> "unload",
                          inj |-> unl[n].inj, h |-> unl[n].h]]
UnloadErrs(sid, ufails) ==
  [n \in 1..Cardinality(ufails) |->
     Task("error", 0, NoPayload, sid, "unload", <<>>, "ready")]

\* `if self._listeners`: the dict has a key
HasListeners(plug) == \E e \in Events : plug.listeners[e] # <<>>

\* Plugin.eject_listeners: the table it leaves once the "unload" listeners
\* (UnloadCalls) have been called
EjectListeners(plug) == [plug EXCEPT !.listeners = NoListeners]

\* Plugin.eject
Eject(plug) == EjectListeners([plug EXCEPT !.is_loaded = FALSE])

\* Plugin.load_meta; exc is None, "PreLoadFailure", or the error that escapes
LoadMeta(plug, script_id, w) ==
  LET D == w.dirs[plug.pd]
      entry(p, ww) == [exc |-> IF D.hasInit THEN None ELSE "PreLoadFailure",
                       plug |-> p, w |-> ww]
  IN
  IF D.manifest # "ok"
    THEN [exc |-> "PreLoadFailure", plug |-> plug, w |-> w]
  ELSE LET p == [plug EXCEPT !.has_meta = TRUE, !.script_id = script_id] IN
    IF D.store = None /\ ~Truthy(p.script_id)
      THEN LET id == GenId(w.nGen + 1) IN
             entry([p EXCEPT !.script_id = id],
                   [w EXCEPT !.dirs[plug.pd].store = id, !.nGen = @ + 1])
    ELSE IF D.store = None
      THEN [exc |-> "FileNotFoundError", plug |-> p, w |-> w]
    ELSE entry(p, w)

\* Plugin.load, the rename of the directory to the plugin's id
RenameStep(plug, w) ==
  IF plug.directory = plug.script_id
    THEN [exc |-> None, plug |-> plug, w |-> w]
  ELSE IF plug.script_id = None
    THEN [exc |-> "TypeError", plug |-> plug, w |-> w]
  ELSE IF \E d \in DOMAIN w.dirs : w.dirs[d].name = plug.script_id
    THEN [exc |-> "FileExistsError", plug |-> plug, w |-> w]
  ELSE [exc |-> None, plug |-> [plug EXCEPT !.directory = plug.script_id],
        w |-> [w EXCEPT !.dirs[plug.pd].name = plug.script_id]]

\* Plugin.load; ok is "true", "false", "ellipsis" (the pre-load failure result)
\* or "raised" (an error other than PluginLoadFailed escaped)
PluginLoad(plug, script_id, w, imp, ini) ==
  LET out(ok, exc, p, ww, t) == [ok |-> ok, exc |-> exc, plug |-> p, w |-> ww,
                                 inits |-> t.inits, inj |-> t.inj, fail |-> t.fail,
                                 unl |-> t.unl]
      none == [inits |-> 0, inj |-> 0, fail |-> None, unl |-> <<>>]
      with(t, unl) == [inits |-> t.inits, inj |-> t.inj, fail |-> t.fail,
                       unl |-> unl]
      AfterTryLoad(t) ==
        IF t.exc
          THEN IF HasListeners(t.plug)
                 THEN out("false", None, EjectListeners(t.plug), t.w,
                          with(t, UnloadCalls(t.plug)))
                 ELSE out("false", None, t.plug, t.w, with(t, <<>>))
          ELSE out("true", None, [t.plug EXCEPT !.is_loaded = TRUE], t.w,
                   with(t, <<>>))
      AfterRename(r) ==
        IF r.exc # None THEN out("raised", r.exc, r.plug, r.w, none)
        ELSE AfterTryLoad(TryLoad(r.plug, r.w, imp, ini))
      AfterMeta(m) ==
        IF m.exc = "PreLoadFailure" THEN out("ellipsis", None, m.plug, m.w, none)
        ELSE IF m.exc # None THEN out("raised", m.exc, m.plug, m.w, none)
        ELSE AfterRename(RenameStep(m.plug, m.w))
  IN AfterMeta(LoadMeta(plug, script_id, w))

DirsNamed(name, w) == { d \in Dirs : w.dirs[d].name = name }

\* PluginManager.load_plugin
ManagerLoadPlugin(reg, w, directory, plugin_id, imp, ini) ==
  LET early(kind) == [kind |-> kind, ok |-> FALSE, sid |-> None, exc |-> None,
                      reg |-> reg, w |-> w, inits |-> 0, inj |-> 0,
                      fail |-> None, unl |-> <<>>]
      AfterLoad(l) ==
        IF l.ok = "raised"
          THEN [kind |-> "exception", ok |-> FALSE, sid |-> None, exc |-> l.exc,
                reg |-> reg, w |-> l.w, inits |-> l.inits, inj |-> l.inj,
                fail |-> l.fail, unl |-> l.unl]
          ELSE [kind |-> CASE l.ok = "ellipsis" -> "preload_failure"
                           [] l.ok = "false" -> "load_failure"
                           [] OTHER -> "loaded",
                ok |-> (l.ok = "true"),
                sid |-> IF l.plug.has_meta THEN l.plug.script_id ELSE None,
                exc |-> None,
                reg |-> IF l.ok # "ellipsis" THEN RegPut(reg, l.plug) ELSE reg,
                w |-> l.w, inits |-> l.inits, inj |-> l.inj, fail |-> l.fail,
                unl |-> l.unl]
  IN
  IF Truthy(plugin_id) /\ plugin_id \in RegIds(reg) THEN early("already_loaded")
  ELSE IF DirsNamed(directory, w) = {} THEN early("no_directory")
  ELSE AfterLoad(PluginLoad(NewPlugin(CHOOSE x \in DirsNamed(directory, w) : TRUE, w),
                            plugin_id, w, imp, ini))

\* PluginManager.reload_plugin; kind "reloaded" is the path that falls off the
\* end of the function and returns None
ManagerReloadPlugin(reg, w, script_id, imp, ini) ==
  IF script_id \notin RegIds(reg)
    THEN [kind |-> "not_registered", reg |-> reg, w |-> w, inits |-> 0,
          inj |-> 0, fail |-> None, was_loaded |-> FALSE, unl |-> <<>>]
    ELSE LET i == RegIndex(reg, script_id)
             AfterTryLoad(t) ==
               [kind |-> IF t.exc THEN "reload_failure" ELSE "reloaded",
                reg |-> [reg EXCEPT ![i] = t.plug], w |-> t.w, inits |-> t.inits,
                inj |-> t.inj, fail |-> t.fail, was_loaded |-> reg[i].is_loaded,
                unl |-> IF reg[i].is_loaded THEN UnloadCalls(reg[i]) ELSE <<>>]
         IN AfterTryLoad(TryLoad(IF reg[i].is_loaded THEN Eject(reg[i]) ELSE reg[i],
                                 w, imp, ini))

\* the world and the registry an operation leaves
SetWorld(w, reg) ==
  /\ dirs' = w.dirs
  /\ inject_listeners' = w.inject
  /\ sys_modules' = w.mods
  /\ nGen' = w.nGen
  /\ nInj' = w.nInj
  /\ plugins' = reg

\* plugin ids a request may carry: none, one chosen by the caller, or one the
\* daemon or a marker file has shown
KnownIds == SuppliedIds \cup RegIds(plugins) \cup { dirs[d].store : d \in Dirs }
PluginIdInputs == {None} \cup KnownIds
DirectoryInputs == { dirs[d].name : d \in Dirs } \cup {"nodir"}

\* HTTPHandler.inbound_load_plugin
InboundLoadPlugin(h, directory, plugin_id, imp, ini) ==
  /\ site
  /\ nGen < MaxGen
  /\ nInj < MaxInj
  /\ IF ~Authorized(h)
       THEN /\ resp' = Unauthorized("/inbound/load-plugin", h)
            /\ UNCHANGED <<plugVars, dispVars>>
       ELSE \E r \in {ManagerLoadPlugin(plugins, World, directory, plugin_id, imp, ini)},
               d \in IF DirsNamed(directory, World) = {} THEN {0}
                      ELSE {CHOOSE x \in DirsNamed(directory, World) : TRUE} :
            \E ufails \in SUBSET (1..Len(r.unl)) :
            /\ SetWorld(r.w, r.reg)
            /\ invoked' = invoked \o UnloadLog(r.sid, r.unl)
            /\ tasks' = tasks \o UnloadErrs(r.sid, ufails)
            /\ UNCHANGED <<nEvents, lastDisp>>
            /\ lastOp' = [op |-> "load", arg_id |-> plugin_id, d |-> d,
                          manifest |-> IF d = 0 THEN None ELSE dirs[d].manifest,
                          hasInit |-> IF d = 0 THEN FALSE ELSE dirs[d].hasInit,
                          store |-> IF d = 0 THEN None ELSE dirs[d].store,
                          before |-> RegIds(plugins), kind |-> r.kind, sid |-> r.sid,
                          exc |-> r.exc, inits |-> r.inits, inj |-> r.inj,
                          fail |-> r.fail, was_loaded |-> FALSE,
                          prev |-> Brief(lastOp)]
            /\ resp' = IF r.kind = "exception"
                         THEN Response("/inbound/load-plugin", h, 500, r.exc)
                       ELSE IF r.ok
                         THEN Response("/inbound/load-plugin", h, 200, "id")
                         ELSE Response("/inbound/load-plugin", h, 203, "id, error")
  /\ UNCHANGED <<authVars, rpcVars, lastIface, inflight>>

\* HTTPHandler.inbound_reload_plugin: `ok, reason = await reload_plugin(...)`
\* cannot unpack the None a successful reload returns
InboundReloadPlugin(h, plugin_id, imp, ini) ==
  /\ site
  /\ nInj < MaxInj
  /\ IF ~Authorized(h)
       THEN /\ resp' = Unauthorized("/inbound/reload-plugin", h)
            /\ UNCHANGED <<plugVars, dispVars>>
       ELSE \E r \in {ManagerReloadPlugin(plugins, World, plugin_id, imp, ini)} :
            \E ufails \in SUBSET (1..Len(r.unl)) :
            /\ SetWorld(r.w, r.reg)
            /\ invoked' = invoked \o UnloadLog(plugin_id, r.unl)
            /\ tasks' = tasks \o UnloadErrs(plugin_id, ufails)
            /\ UNCHANGED <<nEvents, lastDisp>>
            /\ lastOp' = [op |-> "reload", arg_id |-> plugin_id, d |-> 0,
                          manifest |-> None, hasInit |-> FALSE, store |-> None,
                          before |-> RegIds(plugins), kind |-> r.kind,
                          sid |-> plugin_id,
                          exc |-> IF r.kind = "reloaded" THEN "TypeError" ELSE None,
                          inits |-> r.inits, inj |-> r.inj, fail |-> r.fail,
                          was_loaded |-> r.was_loaded, prev |-> Brief(lastOp)]
            /\ resp' = IF r.kind = "reloaded"
                         THEN Response("/inbound/reload-plugin", h, 500, "TypeError")
                         ELSE Response("/inbound/reload-plugin", h, 203, "error")
  /\ UNCHANGED <<authVars, rpcVars, lastIface, inflight>>

\* ---------------------------------------- plugin code calling its Interface
\* `x == cb` for an entry x of a listener list, which is an (injector, handler)
\* tuple, and a handler cb: a tuple never equals a function
EntryEqualsHandler(entry, cb) == FALSE

\* list.remove(cb) inside `try ... except ValueError: continue`: the first
\* element equal to cb is dropped; with none the list stays as it is
ListRemove(list, cb) ==
  IF \E k \in 1..Len(list) : EntryEqualsHandler(list[k], cb)
    THEN LET k == CHOOSE j \in 1..Len(list) :
                    /\ EntryEqualsHandler(list[j], cb)
                    /\ \A m \in 1..(j - 1) : ~EntryEqualsHandler(list[m], cb)
         IN SubSeq(list, 1, k - 1) \o SubSeq(list, k + 1, Len(list))
    ELSE list

\* Plugin.remove_listeners, handed the injector's table
RemoveListeners(listeners, table) ==
  [e \in Events |-> IF table[e] # 0 /\ listeners[e] # <<>>
                      THEN ListRemove(listeners[e], table[e])
                      ELSE listeners[e]]

\* what is remembered of a call on the Interface of plugin sid
IfaceCall(op, sid, inj, exc) ==
  [op |-> op, sid |-> sid, inj |-> inj, exc |-> exc,
   attached |-> plugins[RegIndex(plugins, sid)].injectors,
   before |-> plugins[RegIndex(plugins, sid)].listeners]

\* Interface.load_injector(injector), called by the code of plugin sid (its
\* init or a listener) with an injector instance that exists (inj <= nInj) or
\* with one it creates for the call (Injector.__new__, then Injector._setup)
LoadInjector(sid, inj) ==
  /\ sid \in RegIds(plugins)
  /\ inj \in 1..(nInj + 1)
  /\ inj <= MaxInj
  /\ Len(plugins[RegIndex(plugins, sid)].listeners["error"]) < MaxAttach
  /\ LET i == RegIndex(plugins, sid)
         table == IF inj > nInj THEN InjectorNew(plugins[i].pd, inject_listeners)
                                ELSE inject_listeners
     IN /\ inject_listeners' = table
        /\ nInj' = IF inj > nInj THEN inj ELSE nInj
        /\ IF inj \in plugins[i].injectors
             THEN /\ lastIface' = IfaceCall("load_injector", sid, inj,
                                            "InjectorLoadUnloadError")
                  /\ UNCHANGED plugins
             ELSE /\ lastIface' = IfaceCall("load_injector", sid, inj, None)
                  /\ plugins' = [plugins EXCEPT
                                   ![i].listeners = AddListeners(@, inj, table),
                                   ![i].injectors = @ \cup {inj}]
  /\ UNCHANGED <<authVars, rpcVars, dirs, sys_modules, nGen, lastOp, inflight,
                 dispVars, resp>>

\* Interface.unload_injector(injector), called by the code of plugin sid:
\* list.remove raises ValueError for an injector not in the list, which
\* `except KeyError` lets through; otherwise Injector._teardown follows
UnloadInjector(sid, inj) ==
  /\ sid \in RegIds(plugins)
  /\ inj \in 1..nInj
  /\ LET i == RegIndex(plugins, sid) IN
       IF inj \notin plugins[i].injectors
         THEN /\ lastIface' = IfaceCall("unload_injector", sid, inj, "ValueError")
              /\ UNCHANGED plugins
         ELSE /\ lastIface' = IfaceCall("unload_injector", sid, inj, None)
              /\ plugins' = [plugins EXCEPT
                               ![i].injectors = @ \ {inj},
                               ![i].listeners = RemoveListeners(@, inject_listeners)]
  /\ UNCHANGED <<authVars, rpcVars, dirs, inject_listeners, sys_modules, nGen, nInj,
                 lastOp, inflight, dispVars, resp>>

\* the named remote calls of Interface
NamedCalls == {"get_username", "add_points", "add_points_all", "remove_points",
               "remove_points_all"}

\* the attribute of HTTPHandler each of them awaits
InterfaceTarget(name) ==
  CASE name = "get_username" -> "api_get_username"
    [] name = "add_points" -> "api_add_points"
    [] name = "add_points_all" -> "api_add_all_points"
    [] name = "remove_points" -> "api_remove_points"
    [] OTHER -> "api_remove_all_points"

\* the host-API methods HTTPHandler defines
HTTPHandlerMethods ==
  {"get_currency_name", "add_points", "remove_points", "add_points_all",
   "remove_points_all", "get_points", "get_rank", "get_hours",
   "get_currency_users", "send_stream_message", "send_stream_whisper",
   "send_discord_message", "send_discord_dm", "broadcast_ws_event",
   "has_permission", "get_viewer_list", "get_active_viewer_list",
   "get_random_active_viewer", "get_display_name", "is_live",
   "get_streaming_service", "get_channel_name", "play_sound",
   "get_queue_entries", "get_song_queue", "get_playlist_queue",
   "get_now_playing"}

\* a named remote call made by the code of plugin sid: the attribute lookup on
\* the HTTPHandler raises AttributeError for a name it does not define, and a
\* method it defines hands its payload (named after the method) to put_request
InterfaceCall(sid, name) ==
  /\ sid \in RegIds(plugins)
  /\ IF InterfaceTarget(name) \in HTTPHandlerMethods
       THEN /\ Len(calls) < MaxCalls
            /\ IssueCall(InterfaceTarget(name))
            /\ lastIface' = IfaceCall(name, sid, 0, None)
       ELSE /\ lastIface' = IfaceCall(name, sid, 0, "AttributeError")
            /\ UNCHANGED <<calls, nonces, waiting_for_poll, queued>>
  /\ UNCHANGED <<authVars, ackSeen, delivered, dirs, plugins, inject_listeners,
                 sys_modules, nGen, nInj, lastOp, inflight, dispVars, resp>>

\* ------------------- load and reload requests suspended inside a plugin's init
\* Plugin.try_load up to a suspension inside module.init: the entry unit is
\* imported or re-imported, init is called, attaches its injector and awaits
\* something that suspends it (a remote call, a sleep)
EnterInit(plug, w) ==
  LET Inside(n) == [plug |-> n.plug, w |-> n.w, inj |-> n.inj]
      Imported(i) == Inside(InitStep(i.plug, i.w, "ok"))
  IN Imported(ImportStep(plug, w, "ok"))

\* a request suspended there: the module its init belongs to (unit), and the
\* Plugin object it holds while the registry does not (load_plugin's local)
Suspended(op, hdr, sid, unit, local) ==
  [op |-> op, hdr |-> hdr, sid |-> sid, unit |-> unit, plug |-> local]

RemoveAt(q, k) == SubSeq(q, 1, k - 1) \o SubSeq(q, k + 1, Len(q))

\* the unload listeners reload_plugin calls through Plugin.eject
EjectCalls(plug) == IF plug.is_loaded THEN UnloadCalls(plug) ELSE <<>>

\* inbound_reload_plugin and reload_plugin up to the suspension inside init:
\* the id is looked up, the plugin ejected if it is marked loaded, and
\* try_load awaited
ReloadEnter(h, script_id) ==
  /\ site
  /\ nInj < MaxInj
  /\ Authorized(h)
  /\ script_id \in RegIds(plugins)
  /\ \E i \in {RegIndex(plugins, script_id)} :
     \E e \in {EnterInit(IF plugins[i].is_loaded THEN Eject(plugins[i])
                                                 ELSE plugins[i], World)} :
     \E ufails \in SUBSET (1..Len(EjectCalls(plugins[i]))) :
       /\ SetWorld(e.w, [plugins EXCEPT ![i] = e.plug])
       /\ inflight' = Append(inflight, Suspended("reload", h, script_id,
                                                 e.plug.directory, <<>>))
       /\ invoked' = invoked \o UnloadLog(script_id, EjectCalls(plugins[i]))
       /\ tasks' = tasks \o UnloadErrs(script_id, ufails)
  /\ UNCHANGED <<authVars, rpcVars, lastOp, lastIface, nEvents, lastDisp, resp>>

\* the init a reload is suspended in returns or raises: try_load returns or
\* raises PluginLoadFailed, and the handler answers as InboundReloadPlugin does
ReloadLeave(k, out) ==
  /\ k \in DOMAIN inflight
  /\ inflight[k].op = "reload"
  /\ inflight' = RemoveAt(inflight, k)
  /\ resp' = IF out = "return"
               THEN Response("/inbound/reload-plugin", inflight[k].hdr, 500, "TypeError")
               ELSE Response("/inbound/reload-plugin", inflight[k].hdr, 203, "error")
  /\ UNCHANGED <<authVars, rpcVars, dirs, plugins, inject_listeners, sys_modules,
                 nGen, nInj, lastOp, lastIface, dispVars>>

\* inbound_load_plugin, load_plugin and Plugin.load up to the suspension
\* inside init: the id is tested against the registry, the directory looked
\* up, a Plugin made, its meta loaded, its directory renamed, try_load awaited
LoadEnter(h, directory, plugin_id) ==
  /\ site
  /\ nGen < MaxGen
  /\ nInj < MaxInj
  /\ Authorized(h)
  /\ ~(Truthy(plugin_id) /\ plugin_id \in RegIds(plugins))
  /\ DirsNamed(directory, World) # {}
  /\ \E m \in {LoadMeta(NewPlugin(CHOOSE x \in DirsNamed(directory, World) : TRUE,
                                  World), plugin_id, World)} :
       /\ m.exc = None
       /\ \E r \in {RenameStep(m.plug, m.w)} :
            /\ r.exc = None
            /\ \E e \in {EnterInit(r.plug, r.w)} :
                 /\ SetWorld(e.w, plugins)
                 /\ inflight' = Append(inflight,
                                       Suspended("load", h, e.plug.script_id,
                                                 e.plug.directory, <<e.plug>>))
  /\ UNCHANGED <<authVars, rpcVars, lastOp, lastIface, dispVars, resp>>

\* the init a load is suspended in returns or raises: Plugin.load marks the
\* plugin loaded, or ejects the listeners init attached; load_plugin puts the
\* plugin into the registry under its id, and the handler answers
LoadLeave(k, out) ==
  /\ k \in DOMAIN inflight
  /\ inflight[k].op = "load"
  /\ inflight' = RemoveAt(inflight, k)
  /\ \E plug \in {inflight[k].plug[1]} :
       IF out = "return"
         THEN /\ plugins' = RegPut(plugins, [plug EXCEPT !.is_loaded = TRUE])
              /\ resp' = Response("/inbound/load-plugin", inflight[k].hdr, 200, "id")
              /\ UNCHANGED <<invoked, tasks>>
         ELSE \E ufails \in SUBSET (1..Len(UnloadCalls(plug))) :
              /\ plugins' = RegPut(plugins, EjectListeners(plug))
              /\ invoked' = invoked \o UnloadLog(plug.script_id, UnloadCalls(plug))
              /\ tasks' = tasks \o UnloadErrs(plug.script_id, ufails)
              /\ resp' = Response("/inbound/load-plugin", inflight[k].hdr, 203,
                                  "id, error")
  /\ UNCHANGED <<authVars, rpcVars, dirs, inject_listeners, sys_modules, nGen, nInj,
                 lastOp, lastIface, nEvents, lastDisp>>

\* the plugin lifecycle as the adapter drives it
\* (atinit_search_scripts and the shims send these once the handshake is done)
NextPlug ==
  \/ AdapterHandshake
  \/ \E dir \in {dirs[1].name, "nodir"}, id \in PluginIdInputs,
        imp \in ImportOutcomes, ini \in InitOutcomes :
        auth_state = "AuthOK" /\ InboundLoadPlugin("c1", dir, id, imp, ini)
  \/ \E id \in KnownIds, imp \in ImportOutcomes, ini \in InitOutcomes :
        auth_state = "AuthOK" /\ InboundReloadPlugin("c1", id, imp, ini)

\* the daemon as the adapter starts it, over every state the plugin directory
\* it is asked to load may be found in
InitPlug ==
  /\ Init
  /\ kill_code = KillCodeOf(<<"init.py", "k1">>)
  /\ \A d \in Dirs \ {1} : dirs[d] = FreshDir(d)

SpecPlug == InitPlug /\ [][NextPlug]_vars

\* ------------------------------------------------------- event dispatch

\* the string of a parse request
Strings == {<<>>, <<0>>}
\* what a listener does when called: return, raise, or suspend on an await of
\* its own
ListenerOutcomes == {"return", "raise", "suspend"}

PluginOf(sid) == plugins[RegIndex(plugins, sid)]

\* HTTPHandler.inbound: the router is started as a task and not awaited
Inbound(h, p) ==
  /\ site
  /\ nEvents < MaxEvents
  /\ IF ~Authorized(h)
       THEN /\ resp' = Unauthorized("/inbound", h)
            /\ UNCHANGED <<tasks, nEvents>>
       ELSE /\ nEvents' = nEvents + 1
            /\ tasks' = Append(tasks, Task("inbound", nEvents + 1, p, None, None,
                                           <<>>, "ready"))
            /\ resp' = Response("/inbound", h, 204, None)
  /\ UNCHANGED <<authVars, rpcVars, plugVars, invoked, lastDisp>>

\* PluginManager.handle_inbound, type 0: one _execute_callback task per enabled
\* plugin, in registry order, none awaited
FirstEnabledOnly(reg, ev, p) ==
  LET en == SelectSeq(reg, LAMBDA plug : plug.enabled) IN
    IF en = <<>> THEN <<>>
    ELSE <<Task("exec", ev, p, en[1].script_id, None, <<>>, "ready")>>
SpawnCallbacks(reg, ev, p) ==
  LET en == SelectSeq(reg, LAMBDA plug : plug.enabled) IN
    [i \in 1..Len(en) |-> Task("exec", ev, p, en[i].script_id, None, <<>>, "ready")]

\* PluginManager.handle_inbound; a payload of another type is only looked up,
\* and payload['type'] of a body without that key raises KeyError in the task
HandleInbound(t) ==
  /\ tasks[t].kind = "inbound" /\ tasks[t].st = "ready"
  /\ tasks' = IF "type" \notin DOMAIN tasks[t].p
                THEN [tasks EXCEPT ![t].st = "failed"]
                ELSE [tasks EXCEPT ![t].st = "done"] \o
                       (IF tasks[t].p.type = 0
                          THEN SpawnCallbacks(plugins, tasks[t].ev, tasks[t].p)
                          ELSE <<>>)
  /\ UNCHANGED <<authVars, rpcVars, plugVars, invoked, nEvents, lastDisp, resp>>

\* _execute_callback with the test of is_raw inverted
ExecuteCallbackSwapped(t) ==
  /\ tasks[t].kind = "exec" /\ tasks[t].st = "ready"
  /\ LET event == IF tasks[t].p.is_raw THEN "message" ELSE "raw_message"
         todo == PluginOf(tasks[t].sid).listeners[event]
     IN tasks' = IF ~tasks[t].p.complete
                   THEN [tasks EXCEPT ![t].st = "failed"]
                   ELSE [tasks EXCEPT ![t].event = event, ![t].todo = todo,
                                      ![t].st = IF todo = <<>> THEN "done"
                                                ELSE "calling"]
  /\ UNCHANGED <<authVars, rpcVars, plugVars, invoked, nEvents, lastDisp, resp>>

\* PluginManager._execute_callback up to Plugin.call_listeners: the message is
\* built (KeyError when the data lacks a key) and the listener list is taken
ExecuteCallback(t) ==
  /\ tasks[t].kind = "exec" /\ tasks[t].st = "ready"
  /\ LET event == IF tasks[t].p.is_raw THEN "raw_message" ELSE "message"
         todo == PluginOf(tasks[t].sid).listeners[event]
     IN tasks' = IF ~tasks[t].p.complete
                   THEN [tasks EXCEPT ![t].st = "failed"]
                   ELSE [tasks EXCEPT ![t].event = event, ![t].todo = todo,
                                      ![t].st = IF todo = <<>> THEN "done"
                                                ELSE "calling"]
  /\ UNCHANGED <<authVars, rpcVars, plugVars, invoked, nEvents, lastDisp, resp>>

\* the task create_task(self.call_error_listeners(event, e)) starts
ErrorTaskFor(t) == Task("error", t.ev, t.p, t.sid, t.event, <<>>, "ready")

Invocation(t, l) == [ev |-> t.ev, sid |-> t.sid, event |-> t.event,
                     inj |-> l.inj, h |-> l.h]

\* Plugin.call_listeners, one turn of its loop: the next listener is called
CallListener(t, out) ==
  /\ tasks[t].kind = "exec" /\ tasks[t].st = "calling"
  /\ invoked' = Append(invoked, Invocation(tasks[t], Head(tasks[t].todo)))
  /\ LET rest == Tail(tasks[t].todo)
         after == IF out = "suspend" THEN "inside"
                  ELSE IF rest = <<>> THEN "done" ELSE "calling"
     IN tasks' = [tasks EXCEPT ![t].todo = rest, ![t].st = after] \o
                   (IF out = "raise" THEN <<ErrorTaskFor(tasks[t])>> ELSE <<>>)
  /\ UNCHANGED <<authVars, rpcVars, plugVars, nEvents, lastDisp, resp>>

\* a listener that suspended is resumed by what it awaited, and returns or raises
ResumeListener(t, out) ==
  /\ tasks[t].kind = "exec" /\ tasks[t].st = "inside"
  /\ tasks' = [tasks EXCEPT ![t].st = IF tasks[t].todo = <<>> THEN "done"
                                      ELSE "calling"] \o
                (IF out = "raise" THEN <<ErrorTaskFor(tasks[t])>> ELSE <<>>)
  /\ UNCHANGED <<authVars, rpcVars, plugVars, invoked, nEvents, lastDisp, resp>>

\* the directories whose injector class defines on_error itself (as the
\* repository's sample plugin does); the others inherit Injector.on_error
OverridesOnError == {2}

\* what the error handler of the injector class of directory h returns:
\* Injector.on_error returns the exception's trace text ("trace"), an override
\* a text of its own ("custom")
OnErrorText(h) == IF h \in OverridesOnError THEN "custom" ELSE "trace"

\* Plugin.call_error_listeners, the report it builds from the list ls of error
\* listeners: what the first returns, or the note that the error handler failed
\* ("wrapped") when it raises; notice: the multiple-handlers text is appended
ErrorReport(ls, out) ==
  [text |-> IF out = "raise" THEN "wrapped" ELSE OnErrorText(ls[1].h),
   notice |-> Len(ls) > 1]

\* HTTPHandler.notify_error: the entry it appends to the outbound queue
NotifyError(plugin_id, msg) ==
  [nonce |-> 0, data |-> "@error", plugin_id |-> plugin_id, message |-> msg]

\* Plugin.call_error_listeners: without an "error" key it returns; else the
\* first error listener is called (it returns or raises, `out`), and the
\* report is queued with notify_error
CallErrorListeners(t, out) ==
  /\ tasks[t].kind = "error" /\ tasks[t].st = "ready"
  /\ tasks' = [tasks EXCEPT ![t].st = "done"]
  /\ LET ls == PluginOf(tasks[t].sid).listeners["error"] IN
       IF ls = <<>>
         THEN out = "return" /\ UNCHANGED <<invoked, waiting_for_poll, queued>>
         ELSE \E e \in {NotifyError(tasks[t].sid, ErrorReport(ls, out))} :
              /\ invoked' = Append(invoked,
                              Invocation([tasks[t] EXCEPT !.event = "error"], ls[1]))
              /\ waiting_for_poll' = Append(waiting_for_poll, e)
              /\ queued' = Append(queued, e)
  /\ UNCHANGED <<authVars, plugVars, calls, nonces, ackSeen, delivered, nEvents,
                 lastDisp, resp>>

\* the rewrite the parse listener of handler h makes of the string it is handed
\* (a plugin's own code; each plugin's differs and none commutes with another's)
Transform(h, s) == Append(s, h)

\* Plugin.has_parse_hook
HasParseHook(plug) == plug.listeners["parse"] # <<>>

\* call_parse_hook returning an empty string when its listener raises
CallParseHookResets(plug, s, raises) ==
  IF ~HasParseHook(plug) THEN s
  ELSE IF raises THEN <<>>
  ELSE Transform(plug.listeners["parse"][1].h, s)

\* Plugin.call_parse_hook: the first parse listener; one that raises leaves the
\* string as it was
CallParseHook(plug, s, raises) ==
  IF ~HasParseHook(plug) THEN s
  ELSE IF raises THEN s
  ELSE Transform(plug.listeners["parse"][1].h, s)

\* PluginManager.handle_parse, the two loops; acc holds the string, the number
\* of hooks called, and the plugins whose hook raised
RECURSIVE HandleParseLoop(_, _, _, _, _)
HandleParseLoop(reg, pass, i, acc, fails) ==
  IF pass > 2 THEN acc
  ELSE IF i > Len(reg) THEN HandleParseLoop(reg, pass + 1, 1, acc, fails)
  ELSE IF ~HasParseHook(reg[i]) THEN HandleParseLoop(reg, pass, i + 1, acc, fails)
  ELSE HandleParseLoop(reg, pass, i + 1,
         [s |-> CallParseHook(reg[i], acc.s, (acc.k + 1) \in fails),
          k |-> acc.k + 1,
          log |-> Append(acc.log, [ev |-> 0, sid |-> reg[i].script_id,
                                   event |-> "parse",
                                   inj |-> reg[i].listeners["parse"][1].inj,
                                   h |-> reg[i].listeners["parse"][1].h]),
          errs |-> IF (acc.k + 1) \in fails
                     THEN Append(acc.errs, Task("error", 0, NoPayload,
                                   reg[i].script_id, "parse", <<>>, "ready"))
                     ELSE acc.errs],
         fails)

Reverse(q) == [i \in 1..Len(q) |-> q[Len(q) + 1 - i]]
HandleParseReversed(reg, string, fails) ==
  HandleParseLoop(Reverse(reg), 1, 1,
                  [s |-> string, k |-> 0, log |-> <<>>, errs |-> <<>>], fails)
HandleParse(reg, string, fails) ==
  HandleParseLoop(reg, 1, 1,
                  [s |-> string, k |-> 0, log |-> <<>>, errs |-> <<>>], fails)

\* HTTPHandler.inbound_parse; typeOk: the payload's type is parse and its data
\* carries the keys ParseData reads (otherwise handle_parse raises, and the
\* handler answers with the string it was sent)
InboundParse(h, string, typeOk, fails) ==
  /\ site
  /\ nEvents < MaxEvents
  /\ IF ~Authorized(h)
       THEN /\ resp' = Unauthorized("/inbound/parse", h)
            /\ UNCHANGED <<tasks, invoked, lastDisp, nEvents>>
       ELSE \E r \in {IF typeOk THEN HandleParse(plugins, string, fails)
                      ELSE [s |-> string, k |-> 0, log |-> <<>>, errs |-> <<>>]} :
            /\ fails \subseteq 1..r.k
            /\ tasks' = tasks \o r.errs
            /\ invoked' = invoked \o r.log
            /\ nEvents' = nEvents + 1
            /\ lastDisp' = [op |-> "parse", sid |-> None, typeOk |-> typeOk,
                            string |-> string, fails |-> fails, text |-> r.s,
                            n0 |-> Len(invoked), t0 |-> Len(tasks)]
            /\ resp' = Response("/inbound/parse", h, 200, "text")
  /\ UNCHANGED <<authVars, rpcVars, plugVars>>

\* Plugin.call_listeners as handle_button awaits it: every button listener is
\* called with the element, in order; the n-th raises when n is in fails
ButtonCalls(plug, fails) ==
  LET ls == plug.listeners["button"] IN
    [log |-> [n \in 1..Len(ls) |-> [ev |-> 0, sid |-> plug.script_id,
                                    event |-> "button", inj |-> ls[n].inj,
                                    h |-> ls[n].h]],
     errs |-> [n \in 1..Cardinality(fails) |->
                 Task("error", 0, NoPayload, plug.script_id, "button", <<>>, "ready")],
     k |-> Len(ls)]

\* HTTPHandler.inbound_button and PluginManager.handle_button; an exception
\* that leaves the handler is answered 500 by the web server
InboundButton(h, sid, typeOk, fails) ==
  /\ site
  /\ nEvents < MaxEvents
  /\ IF ~Authorized(h)
       THEN /\ resp' = Unauthorized("/inbound/button", h)
            /\ UNCHANGED <<tasks, invoked, lastDisp, nEvents>>
       ELSE /\ nEvents' = nEvents + 1
            /\ lastDisp' = [op |-> "button", sid |-> sid, typeOk |-> typeOk,
                            string |-> <<>>, fails |-> fails, text |-> <<>>,
                            n0 |-> Len(invoked), t0 |-> Len(tasks)]
            /\ IF ~typeOk
                 THEN /\ fails = {}
                      /\ resp' = Response("/inbound/button", h, 500, "TypeError")
                      /\ UNCHANGED <<tasks, invoked>>
               ELSE IF sid \notin RegIds(plugins)
                 THEN /\ fails = {}
                      /\ resp' = Response("/inbound/button", h, 500, "ValueError")
                      /\ UNCHANGED <<tasks, invoked>>
               ELSE \E r \in {ButtonCalls(PluginOf(sid), fails)} :
                      /\ fails \subseteq 1..r.k
                      /\ tasks' = tasks \o r.errs
                      /\ invoked' = invoked \o r.log
                      /\ resp' = Response("/inbound/button", h, 204, None)
  /\ UNCHANGED <<authVars, rpcVars, plugVars>>

\* ------------------------------- the adapter (DockMain_StreamlabsSystem.py)
\* the host methods (attributes of Parent) outbound payloads name, and a type
\* Parent has no attribute for
ParentMethods == PayloadTypes
UnknownType == "NoSuchMethod"

\* poll_daemon's loop over the events of one poll: the pairs it has built and
\* the exception that ends it. An "@error" entry is logged and skipped; for a
\* type Parent lacks, {nonce, response: None, error} is appended; for a type
\* Parent has, the dict display takes the list `response` as a key, which
\* raises TypeError (unhashable) out of poll_daemon
RECURSIVE PollLoop(_, _)
PollLoop(events, response) ==
  IF events = <<>> THEN [response |-> response, exc |-> None]
  ELSE IF Head(events).data = "@error" THEN PollLoop(Tail(events), response)
  ELSE IF Head(events).data \notin ParentMethods
    THEN PollLoop(Tail(events),
                  Append(response, [nonce |-> Head(events).nonce, response |-> None]))
    ELSE [response |-> response, exc |-> "TypeError"]

\* poll_daemon, with the daemon's handling of the requests it makes: it gets
\* /outbound with the session's secret (HTTPHandler.outbound), runs its loop,
\* and if the loop ended with pairs built it posts {response: pairs} to
\* /inbound, where HTTPHandler.inbound starts handle_inbound on that body
PollDaemon ==
  /\ site
  /\ Authorized("c1")
  /\ auth_state = "AuthOK"
  /\ delivered' = delivered \o waiting_for_poll
  /\ waiting_for_poll' = <<>>
  /\ watch' = Polled(watch)
  /\ \E r \in {PollLoop(waiting_for_poll, <<>>)} :
       IF r.exc = None /\ r.response # <<>>
         THEN /\ tasks' = Append(tasks, Task("inbound", 0, [response |-> r.response],
                                             None, None, <<>>, "ready"))
              /\ resp' = Response("/inbound", "c1", 204, None)
         ELSE /\ resp' = [Response("/outbound", "c1", 200, "queue")
                            EXCEPT !.queue = waiting_for_poll]
              /\ UNCHANGED tasks
  /\ UNCHANGED <<sessVars, plugVars, calls, nonces, ackSeen, queued, invoked,
                 nEvents, lastDisp>>

\* the plugins/ directory before any load, and the daemon's import state
World0 == [dirs |-> [d \in Dirs |-> FreshDir(d)],
           inject |-> [e \in Events |-> 0], mods |-> {}, nGen |-> 0, nInj |-> 0]

\* the registry and world PluginManager.load_plugin leaves after loading the
\* directories of `order`, in that order, each with no id supplied
RECURSIVE LoadAll(_, _, _)
LoadAll(order, reg, w) ==
  LET Then(r) == LoadAll(Tail(order), r.reg, r.w) IN
  IF order = <<>> THEN [reg |-> reg, w |-> w]
  ELSE Then(ManagerLoadPlugin(reg, w, w.dirs[Head(order)].name, None, "ok", "ok"))

\* the orders in which the adapter may have had directories loaded
Orders == { o \in UNION { [1..n -> Dirs] : n \in 0..NumDirs } :
              \A i, j \in DOMAIN o : i # j => o[i] # o[j] }

\* the session once the adapter has done its handshake and had plugins loaded,
\* each plugin's enabled attribute one of `flags`, main at `pc`, and the
\* lockfile and the last poll as one of `ws`
SessionAt(flags, pc, ws) ==
  /\ auth = "c1"
  /\ auth_state = "AuthOK"
  /\ auth_event = TRUE
  /\ challenge = 1
  /\ nChal = 1
  /\ site = TRUE
  /\ main_pc = pc
  /\ kill_sched = <<>>
  /\ task_exc = None
  /\ watch \in ws
  /\ resp = [NoResponse EXCEPT !.at = "AuthOK", !.secret = "c1"]
  /\ calls = <<>>
  /\ nonces = {}
  /\ waiting_for_poll = <<>>
  /\ ackSeen = [n \in 1..(MaxCalls + 1) |-> None]
  /\ queued = <<>>
  /\ delivered = <<>>
  /\ \E order \in Orders : \E L \in {LoadAll(order, <<>>, World0)} :
       /\ dirs = L.w.dirs
       /\ inject_listeners = L.w.inject
       /\ sys_modules = L.w.mods
       /\ nGen = L.w.nGen
       /\ nInj = L.w.nInj
       /\ plugins \in { [i \in 1..Len(L.reg) |-> [L.reg[i] EXCEPT !.enabled = en[i]]] :
                          en \in [1..Len(L.reg) -> flags] }
  /\ lastOp = NoOp
  /\ lastIface = NoIface
  /\ inflight = <<>>
  /\ tasks = <<>>
  /\ invoked = <<>>
  /\ nEvents = 0
  /\ lastDisp = NoDisp

\* that session with main about to return from wait_for_pingpong
LoadedSession(flags) == SessionAt(flags, "waiting", {Watch0})

\* that session in a daemon started as the adapter starts it
InitAfterLoads(flags) ==
  /\ kill_code = KillCodeOf(<<"init.py", "k1">>)
  /\ LoadedSession(flags)

\* the plugins as load_plugin leaves them: none enabled
InitLoaded == InitAfterLoads({FALSE})

\* the plugins loaded, the enabled attribute of each either way: handle_inbound
\* reads the attribute, and nothing in the daemon assigns it after Plugin.__init__
InitDispatch == InitAfterLoads(BOOLEAN)

\* ids a button request may address
ButtonIds == RegIds(plugins) \cup SuppliedIds

NextDispatch ==
  \/ \E p \in InboundPayloads : Inbound("c1", p)
  \/ \E t \in DOMAIN tasks : HandleInbound(t)
  \/ \E t \in DOMAIN tasks : ExecuteCallback(t)
  \/ \E t \in DOMAIN tasks, out \in ListenerOutcomes : CallListener(t, out)
  \/ \E t \in DOMAIN tasks, out \in {"return", "raise"} : ResumeListener(t, out)
  \/ \E t \in DOMAIN tasks, out \in {"return", "raise"} : CallErrorListeners(t, out)
  \/ \E sid \in ButtonIds, ok \in BOOLEAN, fails \in SUBSET (1..NumDirs) :
       InboundButton("c1", sid, ok, fails)

SpecDispatch == InitDispatch /\ [][NextDispatch]_vars

\* parse requests in which at most two calls of a listener raise
NextParse ==
  \/ \E s \in Strings, ok \in BOOLEAN,
        fails \in { f \in SUBSET (1..(2 * NumDirs)) : Cardinality(f) <= 2 } :
       InboundParse("c1", s, ok, fails)
  \/ \E t \in DOMAIN tasks, out \in {"return", "raise"} : CallErrorListeners(t, out)

SpecParse == InitLoaded /\ [][NextParse]_vars

\* every route of the daemon under every header value, once the handshake has
\* been tried with any secret and any challenge answer
NextAuth ==
  \/ Handshake
  \/ \E h \in Headers : RouteVersion(h)
  \/ \E h \in Headers : RouteEnsureAuth(h)
  \/ \E h \in Headers, c \in {"k1", NoCode} : RouteKill(h, c, TRUE)
  \/ KillTask
  \/ \E h \in Headers : Outbound(h)
  \/ \E h \in Headers : InboundAck(h, <<[nonce |-> 1, response |-> "r1"]>>)
  \/ \E h \in Headers : Inbound(h, [type |-> 0, is_raw |-> FALSE, complete |-> TRUE])
  \/ \E h \in Headers : InboundParse(h, <<>>, TRUE, {})
  \/ \E h \in Headers, sid \in ButtonIds : InboundButton(h, sid, TRUE, {})
  \/ \E h \in Headers : InboundLoadPlugin(h, InitialName(1), None, "ok", "ok")
  \/ \E h \in Headers, id \in RegIds(plugins) \cup SuppliedIds :
       InboundReloadPlugin(h, id, "ok", "ok")

\* the daemon started with or without a kill code, its directories fresh
InitAuth ==
  /\ Init
  /\ dirs = [d \in Dirs |-> FreshDir(d)]

SpecAuth == InitAuth /\ [][NextAuth]_vars

\* the startup of the daemon against any local client: the handshake with any
\* secret, header and challenge answer, main's wait for it, and the kill route
\* the adapter calls when its handshake fails
NextHandshake ==
  \/ Handshake
  \/ Startup
  \/ WatchLoop
  \/ ClientOffline
  \/ \E h \in Headers : RouteEnsureAuth(h)
  \/ \E h \in {"c1", NoHeader}, c \in KillCodes \cup {NoCode}, g \in BOOLEAN :
       RouteKill(h, c, g)
  \/ KillTask

SpecHandshake == InitAuth /\ [][NextHandshake]_vars

\* requests that do not carry the session's secret, to every route that has a
\* handler besides /version and /auth, in a session that has plugins loaded
\* and calls pending
WrongHeaders == {"c2", NoHeader}
NextReject ==
  \/ \E p \in PayloadTypes : PutRequest(p)
  \/ \E h \in WrongHeaders, ch \in 0..1 : RoutePingPong(h, ch)
  \/ \E h \in WrongHeaders : RouteEnsureAuth(h)
  \/ \E h \in WrongHeaders : Outbound(h)
  \/ \E h \in WrongHeaders : InboundAck(h, <<[nonce |-> 1, response |-> "r1"]>>)
  \/ \E h \in WrongHeaders :
       Inbound(h, [type |-> 0, is_raw |-> FALSE, complete |-> TRUE])
  \/ \E h \in WrongHeaders : InboundParse(h, <<>>, TRUE, {})
  \/ \E h \in WrongHeaders, sid \in ButtonIds : InboundButton(h, sid, TRUE, {})
  \/ \E h \in WrongHeaders, dir \in DirectoryInputs :
       InboundLoadPlugin(h, dir, None, "ok", "ok")
  \/ \E h \in WrongHeaders, id \in RegIds(plugins) \cup SuppliedIds :
       InboundReloadPlugin(h, id, "ok", "ok")
  \/ \E h \in WrongHeaders, c \in {"k1", NoCode}, g \in BOOLEAN : RouteKill(h, c, g)
  \/ KillTask

\* the loaded session in a daemon started with or without a kill code
InitReject ==
  /\ kill_code \in { KillCodeOf(a) : a \in ArgvChoices }
  /\ LoadedSession({FALSE})

SpecReject == InitReject /\ [][NextReject]_vars

\* the outbound queue under calls, error notifications and polls: calls are
\* issued and time out, a parse listener raises and its plugin's error
\* listener reports, and the adapter (or a client without the secret) polls
NextPoll ==
  \/ \E p \in PayloadTypes : PutRequest(p)
  \/ \E n \in 1..MaxCalls : Timeout(n)
  \/ \E fails \in {{}, {1}} : InboundParse("c1", <<>>, TRUE, fails)
  \/ \E t \in DOMAIN tasks, out \in {"return", "raise"} : CallErrorListeners(t, out)
  \/ \E h \in {"c1", NoHeader} : Outbound(h)

SpecPoll == InitLoaded /\ [][NextPoll]_vars

\* the life of outbound calls: issued, picked up by a poll, acknowledged one
\* pair a request (for an issued or a never issued nonce), resumed, timed out
NextIssue ==
  \/ AdapterHandshake
  \/ \E p \in PayloadTypes : PutRequest(p)
  \/ \E n \in 1..MaxCalls : Timeout(n)
  \/ \E n \in 1..MaxCalls : Resume(n)
  \/ \E n \in 1..(MaxCalls + 1) :
       InboundAck("c1", <<[nonce |-> n, response |-> "r1"]>>)
  \/ Outbound("c1")

SpecIssue == InitPlain /\ [][NextIssue]_vars

\* the adapter has the plugin directories loaded and reloaded one after the
\* other, in any order and with any outcome, in a session that starts with
\* none loaded
NextLoads ==
  \/ \E d \in Dirs, imp \in ImportOutcomes, ini \in InitOutcomes :
       InboundLoadPlugin("c1", dirs[d].name, None, imp, ini)
  \/ \E id \in RegIds(plugins), imp \in ImportOutcomes, ini \in InitOutcomes :
       InboundReloadPlugin("c1", id, imp, ini)

InitNoneLoaded == InitLoaded /\ plugins = <<>>

SpecLoads == InitNoneLoaded /\ [][NextLoads]_vars

\* the states the adapter may leave the lockfile and the last poll in when it
\* stops: the file missing, holding something that is not an integer, or
\* holding a stamp the adapter has not yet found due for renewal; no poll
\* made, or one made just now
LockStates == {"missing", "unreadable", "stamp"}
Ages == { a \in 0..MaxAge : a % LoopSleep = 0 }
WatchStates ==
  { w \in [lock : LockStates, stamp_age : Ages, polled : BOOLEAN, poll_age : {0}] :
      /\ w.lock # "stamp" => w.stamp_age = 0
      /\ w.stamp_age <= 30 + LoopSleep }

\* main's serving loop once the adapter has stopped: nothing polls and nothing
\* renews the stamp; the loop itself keeps running
NextWatch ==
  \/ WatchLoop
  \/ ClientOffline

InitWatch ==
  /\ kill_code = KillCodeOf(<<"init.py", "k1">>)
  /\ SessionAt({FALSE}, "serving", WatchStates)

SpecWatch ==
  InitWatch /\ [][NextWatch]_vars /\ WF_vars(WatchLoop) /\ WF_vars(ClientOffline)

\* the payloads shim_script_toggled (type 2) and shim_initial_state (type 6)
\* post to /inbound for the plugin the shim tracks: {plugin_id, type, data}
TogglePayloads(ids) == [plugin_id : ids, type : {2, 6}, data : BOOLEAN]

\* the adapter relays state toggles and chat events for the plugins it has
\* had loaded, and the daemon routes them
NextToggle ==
  \/ \E p \in TogglePayloads(RegIds(plugins)) : Inbound("c1", p)
  \/ \E p \in InboundPayloads : Inbound("c1", p)
  \/ \E t \in DOMAIN tasks : HandleInbound(t)

SpecToggle == InitLoaded /\ [][NextToggle]_vars

\* outbound calls end to end: the daemon issues calls naming a host method or
\* a type the host lacks, a listener's error is reported, the adapter polls,
\* and calls time out
NextAdapter ==
  \/ \E p \in PayloadTypes \cup {UnknownType} : PutRequest(p)
  \/ \E n \in 1..MaxCalls : Timeout(n)
  \/ \E fails \in {{}, {1}} : InboundParse("c1", <<>>, TRUE, fails)
  \/ \E t \in DOMAIN tasks, out \in {"return", "raise"} : CallErrorListeners(t, out)
  \/ PollDaemon
  \/ \E t \in DOMAIN tasks : HandleInbound(t)

SpecAdapter == InitLoaded /\ [][NextAdapter]_vars

\* plugin code at work in a session with plugins loaded: it attaches and
\* detaches injectors and makes the named remote calls, and a button event is
\* dispatched to the tables that leaves
NextIface ==
  \/ \E sid \in RegIds(plugins), inj \in 1..MaxInj : LoadInjector(sid, inj)
  \/ \E sid \in RegIds(plugins), inj \in 1..MaxInj : UnloadInjector(sid, inj)
  \/ \E sid \in RegIds(plugins), name \in NamedCalls : InterfaceCall(sid, name)
  \/ \E sid \in RegIds(plugins), fails \in {{}, {1}} :
       InboundButton("c1", sid, TRUE, fails)
  \/ \E t \in DOMAIN tasks, out \in {"return", "raise"} : CallErrorListeners(t, out)

SpecIface == InitLoaded /\ [][NextIface]_vars

\* reloads of the plugins of a loaded session, with every outcome of the
\* unload listeners, the import and the init, and the error tasks they start;
\* a button event is dispatched as well
NextEject ==
  \/ \E id \in RegIds(plugins), imp \in ImportOutcomes, ini \in InitOutcomes :
       InboundReloadPlugin("c1", id, imp, ini)
  \/ \E sid \in RegIds(plugins), fails \in {{}, {1}} :
       InboundButton("c1", sid, TRUE, fails)
  \/ \E t \in DOMAIN tasks, out \in {"return", "raise"} : CallErrorListeners(t, out)

\* the loaded session with every plugin marked loaded, as load_plugin leaves it
SpecEject == InitLoaded /\ [][NextEject]_vars

\* load and reload requests that overlap: each may be suspended inside the
\* init of the plugin it loads while the next is handled
NextConc ==
  \/ \E id \in RegIds(plugins) : ReloadEnter("c1", id)
  \/ \E k \in DOMAIN inflight, out \in {"return", "raise"} : ReloadLeave(k, out)
  \/ \E dir \in DirectoryInputs, id \in PluginIdInputs : LoadEnter("c1", dir, id)
  \/ \E k \in DOMAIN inflight, out \in {"return", "raise"} : LoadLeave(k, out)

SpecConc == InitLoaded /\ [][NextConc]_vars

\* ------------------------------------------------------------------ claims
\* C1: a call whose nonce is carried by a pair of an /inbound-ack request that
\* the daemon handles before the call's deadline is resolved with exactly that
\* response (the first such pair; a second resolves nothing), it returns that
\* response to its issuer, and its nonce has left the pending table.
C1_AckResolvesCall ==
  \A n \in 1..Len(calls) :
    ackSeen[n] # None =>
      /\ n \notin nonces
      /\ calls[n].fut = "result"
      /\ calls[n].val = ackSeen[n]
      /\ calls[n].st \in {"waiting", "returned"}
      /\ (calls[n].st = "returned" => calls[n].ret = ackSeen[n])

\* C2: a call whose deadline passes unacknowledged returns None to its issuer,
\* raises nothing, and its nonce has left the pending table.
C2_TimeoutReturnsNone ==
  \A n \in 1..Len(calls) :
    calls[n].fut = "cancelled" =>
      /\ calls[n].st = "returned"
      /\ calls[n].ret = None
      /\ n \notin nonces

\* the routes whose handler opens with the bearer guard
BearerRoutes == {"/pingpong", "/authcheck", "/outbound", "/inbound",
                 "/inbound/parse", "/inbound/button", "/inbound-ack",
                 "/inbound/load-plugin", "/inbound/reload-plugin"}

\* the last request came after a successful handshake and was rejected as
\* unauthorized exactly when its header is absent or differs from the secret
GuardedAsClaimed(routes) ==
  (resp.at = "AuthOK" /\ resp.route \in routes) =>
    (resp.status = 401 <=> (resp.hdr = NoHeader \/ resp.hdr # resp.secret))

\* C3 (as stated): after a successful handshake with secret C, every route but
\* /version and /auth, /kill among them, performs its operation when the bearer
\* header equals C and answers 401 when the header is absent or differs.
C3_EveryRouteBearerGuarded == GuardedAsClaimed(BearerRoutes \cup {"/kill"})

\* C3 (amended): after a successful handshake with secret C, every route but
\* /version, /auth and /kill performs its operation when the bearer header
\* equals C and answers 401 when the header is absent or differs.
C3_BearerGuard == GuardedAsClaimed(BearerRoutes)

\* C3 witness: after the handshake a plugin load carrying another secret than
\* the session's was rejected
C3_Witness ==
  /\ resp.at = "AuthOK" /\ resp.route = "/inbound/load-plugin"
  /\ resp.hdr = "c2" /\ resp.secret = "c1" /\ resp.status = 401

\* the handlers of the parse listeners the registry's plugins would be called
\* with, in registration order
ParseTransforms ==
  LET ps == SelectSeq(plugins, LAMBDA plug : plug.listeners["parse"] # <<>>) IN
    [i \in 1..Len(ps) |-> ps[i].listeners["parse"][1].h]

RECURSIVE ApplyAll(_, _)
ApplyAll(hs, s) ==
  IF hs = <<>> THEN s ELSE ApplyAll(Tail(hs), Transform(Head(hs), s))

\* a parse request handle_parse answered, in which no listener raised
ParseAnswered ==
  lastDisp.op = "parse" /\ lastDisp.typeOk /\ lastDisp.fails = {}

\* C5: handle_parse returns the input string threaded through the parse
\* transform of every plugin that has a parse listener, in registration order,
\* twice over; for two such plugins P1, P2 that is P2(P1(P2(P1(S)))).
C5_ParseTwoPasses ==
  ParseAnswered =>
    /\ lastDisp.text = ApplyAll(ParseTransforms \o ParseTransforms, lastDisp.string)
    /\ Len(ParseTransforms) = 2 =>
         lastDisp.text =
           Transform(ParseTransforms[2], Transform(ParseTransforms[1],
             Transform(ParseTransforms[2], Transform(ParseTransforms[1],
               lastDisp.string))))

\* C5 witness: a string went through the differing transforms of two plugins
C5_Witness ==
  /\ ParseAnswered
  /\ Len(ParseTransforms) = 2
  /\ ParseTransforms[1] # ParseTransforms[2]
  /\ Len(lastDisp.text) = Len(lastDisp.string) + 4

\* no task can run until something outside the daemon lets a suspended
\* listener go on
Quiescent == \A t \in DOMAIN tasks : tasks[t].st \in {"inside", "done", "failed"}

\* the broadcast events handed to the router, whose data a message can be
\* built from
Broadcasts == { t \in DOMAIN tasks : /\ tasks[t].kind = "inbound"
                                     /\ tasks[t].p.type = 0
                                     /\ tasks[t].p.complete }

Matching(plug, p) ==
  plug.enabled /\ plug.listeners[IF p.is_raw THEN "raw_message" ELSE "message"] # <<>>

InvokedFor(sid, ev) ==
  \E k \in DOMAIN invoked : /\ invoked[k].ev = ev /\ invoked[k].sid = sid
                            /\ invoked[k].event \in {"message", "raw_message"}

C7_UnknownButtonDropped ==
  (/\ lastDisp.op = "button" /\ lastDisp.typeOk
   /\ lastDisp.sid \notin RegIds(plugins)
   /\ resp.route = "/inbound/button") =>
    /\ resp.status = 204
    /\ Len(invoked) = lastDisp.n0

\* the plugin the last load or reload was about, as the registry holds it
LastPlugin == plugins[RegIndex(plugins, lastOp.sid)]

\* the listener table one run of the entry unit's init builds: the handlers its
\* injector's class declares, each once
TableOfOneInit(inj) == AddListeners(NoListeners, inj, inject_listeners)

\* a second reload that directly follows a reload of the same plugin, which was
\* loaded before the first
SecondReload ==
  /\ lastOp.op = "reload" /\ lastOp.kind = "reloaded"
  /\ lastOp.prev.op = "reload" /\ lastOp.prev.kind = "reloaded"
  /\ lastOp.prev.sid = lastOp.sid
  /\ lastOp.prev.was_loaded

\* C4: after each of two reloads in succession of a loaded plugin, the
\* plugin's listener table holds exactly the listeners that call's
\* initialization registered, each once, with nothing left from before the
\* call, and initialization ran exactly once in the call.
C4_ReloadTwiceRebuilds ==
  (lastOp.op = "reload" /\ lastOp.kind = "reloaded"
     /\ (lastOp.was_loaded \/ SecondReload)) =>
    /\ LastPlugin.listeners = TableOfOneInit(lastOp.inj)
    /\ lastOp.inits = 1

\* load_plugin got as far as Plugin.load: the directory exists and the id it
\* was given is not registered
LoadReachedPlugin ==
  /\ lastOp.op = "load"
  /\ lastOp.d # 0
  /\ ~(Truthy(lastOp.arg_id) /\ lastOp.arg_id \in lastOp.before)

\* C8: load_plugin on a directory without a manifest, with one that cannot be
\* parsed or lacks a required field, or without init.py yields the pre-load
\* failure result and leaves the set of registered ids as it was, whatever
\* plugin_id it is given.
C8_PreLoadFailureKeepsRegistry ==
  (LoadReachedPlugin /\ (lastOp.manifest # "ok" \/ ~lastOp.hasInit)) =>
    /\ lastOp.kind = "preload_failure"
    /\ RegIds(plugins) = lastOp.before

\* the id the resolution order gives the last load: the supplied one, else the
\* marker file's, else the generated one now in the marker file
ResolvedId ==
  IF Truthy(lastOp.arg_id) THEN lastOp.arg_id
  ELSE IF lastOp.store # None THEN lastOp.store
  ELSE dirs[lastOp.d].store

\* C9: a load that passes the pre-load checks registers the plugin under the
\* supplied id, else under the id in the directory's marker file, else under
\* a generated id it writes to the marker file, and the directory bears that
\* id as its name; so a directory that has a marker file is registered under
\* the id in it whenever it is loaded with no id.
C9_IdResolutionOrder ==
  (LoadReachedPlugin /\ lastOp.manifest = "ok" /\ lastOp.hasInit) =>
    /\ lastOp.kind \in {"loaded", "load_failure"}
    /\ ResolvedId # None
    /\ lastOp.sid = ResolvedId
    /\ ResolvedId \in RegIds(plugins)
    /\ dirs[lastOp.d].name = ResolvedId

\* C10: after a load_plugin or reload_plugin in which the import of the entry
\* unit or its init failed, the plugin is registered under its id, is not
\* loaded, and its listener table is empty.
C10_FailedLoadEjectsAll ==
  lastOp.kind \in {"load_failure", "reload_failure"} =>
    /\ lastOp.sid \in RegIds(plugins)
    /\ ~LastPlugin.is_loaded
    /\ LastPlugin.listeners = NoListeners

\* C11: every authorized /inbound/load-plugin request whose load does not
\* succeed, whatever plugin_id it carries and whether or not the directory has
\* a marker file, is answered with the structured failure result (203,
\* {id, error}); no exception leaves load_plugin.
C11_LoadFailureStructured ==
  (lastOp.op = "load" /\ resp.route = "/inbound/load-plugin" /\ resp.status # 200) =>
    /\ lastOp.kind # "exception"
    /\ resp.status = 203
    /\ resp.body = "id, error"

\* a step in which the daemon answers a request to `route`
Answers(route) == resp' # resp /\ resp'.route = route

C13_PingPongOutcome ==
  [][ (/\ Answers("/pingpong")
       /\ resp'.hdr # NoHeader /\ resp'.hdr = auth
       /\ challenge # 0) =>
        /\ IF resp'.chal = challenge
             THEN /\ auth_state' = "AuthOK"
                  /\ resp'.status = 204 /\ resp'.body = None
             ELSE /\ auth_state' = "ClientServerMismatch"
                  /\ resp'.status = 400
        /\ auth_event'
    ]_vars

\* C13 witness: a wrong challenge was posted with the right secret while main
\* was blocked in wait_for_pingpong, and main has woken and is aborting
C13_Witness ==
  /\ resp.route = "/pingpong" /\ resp.status = 400 /\ resp.hdr = resp.secret
  /\ resp.chal # challenge /\ resp.at = "PendingPingPong"
  /\ auth_state = "ClientServerMismatch" /\ auth_event
  /\ main_pc = "aborting"

\* what a rejected request must leave alone: the session, the outbound queue,
\* the pending calls, the registry with its listener tables, the class-level
\* listener table, the dispatch tasks and the scheduled teardowns
FrameVars == <<auth_state, auth, challenge, waiting_for_poll, nonces, calls,
               plugins, inject_listeners, tasks, kill_sched>>

\* a request to one of `routes` without the stored secret is answered 401 and
\* changes nothing
RejectedUnchanged(routes) ==
  (/\ resp' # resp
   /\ resp'.route \in routes
   /\ (resp'.hdr = NoHeader \/ resp'.hdr # auth)) =>
     /\ resp'.status = 401
     /\ UNCHANGED FrameVars

\* C14 (as stated): a request to any route other than /version and /auth,
\* /kill among them, whose bearer header is absent or differs from the stored
\* secret is answered 401 and changes nothing, and schedules no teardown.
C14_EveryRouteRejects == [][RejectedUnchanged(BearerRoutes \cup {"/kill"})]_vars

\* C14 (amended): a request to any route other than /version, /auth and /kill
\* whose bearer header is absent or differs from the stored secret is answered
\* 401 and changes nothing, and schedules no teardown.
C14_RejectedChangesNothing == [][RejectedUnchanged(BearerRoutes)]_vars

\* C14 witness: with an entry in the outbound queue, a call pending and a
\* plugin registered, a poll carrying another secret was rejected
C14_Witness ==
  /\ resp.route = "/outbound" /\ resp.status = 401 /\ resp.hdr = "c2"
  /\ resp.secret = "c1"
  /\ waiting_for_poll # <<>> /\ nonces # {} /\ plugins # <<>>

\* main leaves wait_for_pingpong
Unblocked == main_pc = "waiting" /\ main_pc' # "waiting"

\* the timeout of wait_for_pingpong ends the wait: PingPongFailed, and main
\* goes on to tear the listener down
TimedOut == ~auth_event /\ auth_state' = "PingPongFailed" /\ main_pc' = "aborting"

\* once aborting, main tears the listener down and returns; it never serves
AbortsWithoutServing ==
  /\ main_pc = "aborting" => main_pc' \in {"aborting", "done"}
  /\ (main_pc = "aborting" /\ main_pc' = "done") => ~site'
  /\ main_pc = "done" => main_pc' = "done"

\* main enters its serving loop only in state AuthOK
ServesOnlyWhenAuthOK ==
  (main_pc # "serving" /\ main_pc' = "serving") =>
    (auth_state = "AuthOK" /\ auth_state' = "AuthOK")

\* C15 (as stated): main stays blocked in wait_for_pingpong until the session
\* is AuthOK or the timeout elapses; on the timeout the session is set to
\* PingPongFailed and the listener is torn down without serving; main enters
\* its serving loop only in state AuthOK.
C15_BlockedUntilOkOrTimeout ==
  [][ /\ Unblocked => (auth_state = "AuthOK" \/ TimedOut)
      /\ AbortsWithoutServing
      /\ ServesOnlyWhenAuthOK
    ]_vars

\* C15 (amended): main stays blocked in wait_for_pingpong until a /pingpong
\* has set the handshake's event (on a matching challenge and on a mismatch
\* alike) or the timeout elapses; on the timeout the session is set to
\* PingPongFailed; on the timeout and on any state but AuthOK the listener is
\* torn down without serving; main enters its serving loop only in state
\* AuthOK.
C15_StartupGate ==
  [][ /\ Unblocked => (auth_event \/ TimedOut)
      /\ (Unblocked /\ auth_event) =>
           main_pc' = IF auth_state = "AuthOK" THEN "serving" ELSE "aborting"
      /\ AbortsWithoutServing
      /\ ServesOnlyWhenAuthOK
    ]_vars

\* C15 witness: the timeout elapsed with no handshake done, and main has torn
\* the listener down and returned
C15_Witness ==
  /\ main_pc = "done" /\ ~auth_event /\ ~site
  /\ auth_state = "Closing" /\ auth = None

\* the daemon was started as the adapter starts it, `init.py K`: the kill code
\* it holds is what http.py makes of that command line
StartedWithOneArgument(K) == kill_code = KillCodeOf(<<"init.py", K>>)

\* C16: in a daemon started with the kill-authorization string K as its one
\* positional argument, a /kill whose code equals K is answered 204 and
\* schedules the teardown, and a /kill whose code is absent or differs is
\* answered 401.
C16_KillCodeAuthorizes ==
  (StartedWithOneArgument("k1") /\ resp.route = "/kill") =>
    IF resp.code = "k1" THEN resp.status = 204 ELSE resp.status = 401

\* C17: each authorized poll returns the entries appended to the queue since
\* the previous poll, in the order they were appended, and leaves the queue
\* empty; what the polls have returned so far, followed by what is still
\* queued, is exactly what was ever queued, in order (no entry lost, none
\* returned twice).
C17_PollDeliversOnce ==
  [][ /\ (Answers("/outbound") /\ resp'.status = 200) =>
           (/\ resp'.queue = waiting_for_poll
            /\ waiting_for_poll' = <<>>)
      /\ delivered' \o waiting_for_poll' = queued'
    ]_vars

\* C17 witness: a first poll returned a call's entry, and a second returned an
\* error notification and a later call's entry queued after it, in that order
C17_Witness ==
  /\ resp.route = "/outbound" /\ resp.status = 200
  /\ Len(delivered) = 3 /\ Len(resp.queue) = 2
  /\ resp.queue[1].data = "@error" /\ resp.queue[2].nonce = 2
  /\ waiting_for_poll = <<>>

\* C18: an authorized /inbound-ack request is answered 204 whatever nonces
\* its pairs carry (never issued, already acknowledged, or timed out), and
\* every pair of it that named a call still waiting for its acknowledgement
\* has resolved that call with its response.
C18_UnmatchedAckDiscarded ==
  /\ (resp.route = "/inbound-ack" /\ resp.hdr # NoHeader /\ resp.hdr = resp.secret)
       => resp.status = 204
  /\ \A n \in 1..Len(calls) :
       ackSeen[n] # None => (calls[n].fut = "result" /\ calls[n].val = ackSeen[n])

\* C19: issuing a call adds exactly one nonce to the pending table, one that
\* was not in it, appends exactly one entry carrying that nonce and the payload
\* to the end of the outbound queue, and leaves the issuer waiting on a
\* pending future; and an issuer stops waiting only when an acknowledgement
\* has resolved its future or its timeout has cancelled it.
C19_PutRequestQueuesOne ==
  [][ /\ Len(calls') > Len(calls) =>
           \E n \in nonces' \ nonces :
             /\ nonces' = nonces \cup {n}
             /\ waiting_for_poll' = Append(waiting_for_poll, waiting_for_poll'[Len(waiting_for_poll')])
             /\ waiting_for_poll'[Len(waiting_for_poll')].nonce = n
             /\ waiting_for_poll'[Len(waiting_for_poll')].data \in PayloadTypes
             /\ Len(calls') = Len(calls) + 1
             /\ calls'[Len(calls')].st = "waiting"
             /\ calls'[Len(calls')].fut = "pending"
      /\ \A n \in 1..Len(calls) :
           (calls[n].st = "waiting" /\ calls'[n].st # "waiting") =>
             (calls[n].fut = "result" \/ calls'[n].fut = "cancelled")
    ]_vars

\* C19 witness: two calls are waiting under different nonces, their entries in
\* the queue in the order they were issued
C19_Witness ==
  /\ Len(calls) = 2 /\ nonces = {1, 2}
  /\ calls[1].st = "waiting" /\ calls[2].st = "waiting"
  /\ Len(waiting_for_poll) = 2
  /\ waiting_for_poll[1].nonce = 1 /\ waiting_for_poll[2].nonce = 2

\* C20: an authorized /inbound/reload-plugin request is answered 204 when the
\* id is registered and the re-import and the initialization succeed, and
\* with the structured {error} result (203) when the id is not registered or
\* the reload fails; for an id that is not registered the set of registered
\* ids is as it was.
C20_ReloadAnswers ==
  (lastOp.op = "reload" /\ resp.route = "/inbound/reload-plugin") =>
    /\ lastOp.kind = "reloaded" => resp.status = 204
    /\ lastOp.kind \in {"not_registered", "reload_failure"} =>
         (resp.status = 203 /\ resp.body = "error")
    /\ lastOp.kind = "not_registered" => RegIds(plugins) = lastOp.before

\* a teardown task scheduled by /kill runs; the first of the queue is TRUE for
\* a graceful one
KillRuns == kill_sched # <<>> /\ kill_sched' = Tail(kill_sched)

\* the calls graceful shutdown owes the registry: the "unload" listeners of
\* every registered plugin, each once
RECURSIVE UnloadCallsOf(_)
UnloadCallsOf(reg) ==
  IF reg = <<>> THEN <<>>
  ELSE [k \in 1..Len(reg[1].listeners["unload"]) |->
          [ev |-> 0, sid |-> reg[1].script_id, event |-> "unload",
           inj |-> reg[1].listeners["unload"][k].inj,
           h |-> reg[1].listeners["unload"][k].h]] \o UnloadCallsOf(Tail(reg))

\* C21: the teardown /kill schedules leaves the registry empty; the graceful
\* one first invokes the "unload" listeners of every registered plugin, each
\* exactly once, and the ungraceful one invokes no listener.
C21_ShutdownEvictsAll ==
  [][ KillRuns =>
        /\ plugins' = <<>>
        /\ invoked' = invoked \o (IF Head(kill_sched) THEN UnloadCallsOf(plugins)
                                                       ELSE <<>>)
    ]_vars

\* the entries of plugin sid's listener table that injector inj owns
OwnedBy(sid, inj) ==
  { <<e, k>> \in Events \X (1..(MaxAttach + 1)) :
      /\ k <= Len(PluginOf(sid).listeners[e])
      /\ PluginOf(sid).listeners[e][k].inj = inj }

\* C23: once unload_injector(I) has returned for an injector I that
\* load_injector attached, the plugin's listener table holds no entry owned
\* by I, for any event.
C23_DetachRemovesListeners ==
  (/\ lastIface.op = "unload_injector" /\ lastIface.exc = None
   /\ lastIface.sid \in RegIds(plugins)) =>
    OwnedBy(lastIface.sid, lastIface.inj) = {}

\* a call of `op` on an Interface was made in this step
IfaceStep(op) == lastIface' # lastIface /\ lastIface'.op = op

\* C24: load_injector with an injector that is attached, and unload_injector
\* with one that is not, both fail with InjectorLoadUnloadError and leave the
\* listener table and the set of attached injectors as they were.
C24_MisuseRejected ==
  [][ /\ (IfaceStep("load_injector") /\ lastIface'.inj \in lastIface'.attached) =>
           (lastIface'.exc = "InjectorLoadUnloadError" /\ plugins' = plugins)
      /\ (IfaceStep("unload_injector")
            /\ lastIface'.inj \notin lastIface'.attached) =>
           (lastIface'.exc = "InjectorLoadUnloadError" /\ plugins' = plugins)
    ]_vars

\* C27: a named remote call of Interface never raises; it creates exactly one
\* pending call and one entry at the end of the outbound queue, which carries
\* the call's nonce and names a host API.
C27_NamedCallsPassThrough ==
  [][ \A name \in NamedCalls :
        IfaceStep(name) =>
          /\ lastIface'.exc = None
          /\ Len(calls') = Len(calls) + 1
          /\ Cardinality(nonces') = Cardinality(nonces) + 1
          /\ Len(waiting_for_poll') = Len(waiting_for_poll) + 1
          /\ waiting_for_poll'[Len(waiting_for_poll')].nonce \in nonces' \ nonces
    ]_vars

\* the error task t runs in this step
ErrorTaskRuns(t) ==
  /\ tasks[t].kind = "error" /\ tasks[t].st = "ready"
  /\ tasks'[t].st = "done"

\* the report the step appended to the outbound queue
NewReport == queued'[Len(queued')]
\* the invocation the step made
NewInvocation == invoked'[Len(invoked')]

\* the plugin has no error handler of its own: its injector class neither
\* defines on_error nor declares an "error" listener
NoOwnErrorHandler(plug) ==
  plug.pd \notin OverridesOnError /\ "error" \notin Declares(plug.pd)

\* C25: every error report of a plugin comes with exactly one invocation of
\* an error listener, the first in the plugin's list; it carries the
\* multiple-handlers notice exactly if the list holds more than one; and for
\* a plugin with no error handler of its own whose listener returns, the
\* report is the exception's trace text.
C25_FirstErrorListenerReports ==
  [][ \A t \in DOMAIN tasks :
        (ErrorTaskRuns(t) /\ Len(queued') = Len(queued) + 1) =>
          /\ Len(invoked') = Len(invoked) + 1
          /\ NewInvocation.event = "error" /\ NewInvocation.sid = tasks[t].sid
          /\ NewInvocation.inj = PluginOf(tasks[t].sid).listeners["error"][1].inj
          /\ NewReport.message.notice =
               (Len(PluginOf(tasks[t].sid).listeners["error"]) > 1)
          /\ (NoOwnErrorHandler(PluginOf(tasks[t].sid))
                /\ NewReport.message.text # "wrapped") =>
               NewReport.message.text = "trace"
    ]_vars

\* C26: every exception a listener raised (each starts one error task,
\* whatever the event: message, raw_message, parse, button, unload) results
\* in exactly one invocation of the plugin's error listener and exactly one
\* error notification for the plugin at the end of the outbound queue; when
\* the error listener raises, the notification is the wrapped note.
C26_ListenerErrorsReported ==
  [][ \A t \in DOMAIN tasks :
        ErrorTaskRuns(t) =>
          /\ Len(invoked') = Len(invoked) + 1
          /\ NewInvocation.event = "error" /\ NewInvocation.sid = tasks[t].sid
          /\ Len(queued') = Len(queued) + 1
          /\ NewReport.data = "@error" /\ NewReport.plugin_id = tasks[t].sid
          /\ waiting_for_poll' = Append(waiting_for_poll, NewReport)
    ]_vars

\* the listeners of `event` of plugin sid that event request ev has invoked,
\* in the order of their invocation
CallsFor(ev, sid, event) ==
  LET cs == SelectSeq(invoked, LAMBDA c : c.ev = ev /\ c.sid = sid /\ c.event = event)
  IN [k \in 1..Len(cs) |-> [inj |-> cs[k].inj, h |-> cs[k].h]]

IsPrefix(a, b) == Len(a) <= Len(b) /\ a = SubSeq(b, 1, Len(a))

\* the delivery task of event request ev to plugin sid has ended
Delivered(ev, sid) ==
  \E t \in DOMAIN tasks : /\ tasks[t].kind = "exec" /\ tasks[t].ev = ev
                           /\ tasks[t].sid = sid /\ tasks[t].st = "done"

\* what broadcast b has done to plugin plug, `want` being the listeners the
\* event is for and `other` those it is not for
BroadcastTo(b, plug, want, other) ==
  /\ CallsFor(tasks[b].ev, plug.script_id, other) = <<>>
  /\ ~plug.enabled => /\ CallsFor(tasks[b].ev, plug.script_id, want) = <<>>
                      /\ ~Delivered(tasks[b].ev, plug.script_id)
  /\ IsPrefix(CallsFor(tasks[b].ev, plug.script_id, want), plug.listeners[want])
  /\ (plug.enabled /\ tasks[b].st = "done") =>
       \E t \in DOMAIN tasks : /\ tasks[t].kind = "exec" /\ tasks[t].ev = tasks[b].ev
                                /\ tasks[t].sid = plug.script_id
  /\ (plug.enabled /\ Delivered(tasks[b].ev, plug.script_id)) =>
       CallsFor(tasks[b].ev, plug.script_id, want) = plug.listeners[want]

ParseOwners ==
  LET ps == SelectSeq(plugins, LAMBDA plug : plug.listeners["parse"] # <<>>) IN
    [i \in 1..Len(ps) |-> ps[i].script_id]

\* the string threaded through the transforms hs, of which the k-th, (k+1)-th,
\* ... are the steps numbered k, k+1, ...: a step whose number is in fails
\* hands the string on as it got it
RECURSIVE ApplySkipping(_, _, _, _)
ApplySkipping(hs, k, s, fails) ==
  IF hs = <<>> THEN s
  ELSE ApplySkipping(Tail(hs), k + 1,
                     IF k \in fails THEN s ELSE Transform(Head(hs), s), fails)

\* the error tasks the last parse request started for parse listeners of
\* plugin sid (t0: the tasks there were when the request arrived)
ParseErrorTasks(sid) ==
  { t \in DOMAIN tasks : /\ t > lastDisp.t0
                         /\ tasks[t].kind = "error" /\ tasks[t].event = "parse"
                         /\ tasks[t].sid = sid }

\* a parse request that handle_parse has answered
ParseHandled ==
  lastDisp.op = "parse" /\ lastDisp.typeOk /\ resp.route = "/inbound/parse"

\* C29: in the parse pipeline a step whose listener raises hands on the
\* string exactly as it got it, every other step of both passes is still
\* made, one error task for the raising plugin is started per raising step,
\* and the request is answered 200 with a {text} result.
C29_RaisingParseStepSkipped ==
  ParseHandled =>
    /\ resp.status = 200 /\ resp.body = "text"
    /\ lastDisp.text = ApplySkipping(ParseTransforms \o ParseTransforms, 1,
                                     lastDisp.string, lastDisp.fails)
    /\ \A k \in 1..(2 * Len(ParseOwners)) :
         /\ invoked[lastDisp.n0 + k].event = "parse"
         /\ invoked[lastDisp.n0 + k].sid = (ParseOwners \o ParseOwners)[k]
    /\ \A sid \in RegIds(plugins) :
         Cardinality(ParseErrorTasks(sid)) =
           Cardinality({ k \in lastDisp.fails :
                           (ParseOwners \o ParseOwners)[k] = sid })

\* C29 witness: with two plugins, the second step of the pipeline raised after
\* the first had rewritten the string; the two steps of the second pass were
\* made, and the raising plugin's error listener has reported
C29_Witness ==
  /\ ParseHandled
  /\ Len(ParseOwners) = 2
  /\ lastDisp.fails = {2}
  /\ Len(lastDisp.text) = Len(lastDisp.string) + 3
  /\ \E t \in ParseErrorTasks(ParseOwners[2]) : tasks[t].st = "done"
  /\ \E k \in DOMAIN queued : /\ queued[k].data = "@error"
                               /\ queued[k].plugin_id = ParseOwners[2]

\* main's call end_service(error=False) that aborts the startup
AbortStep == main_pc = "aborting" /\ main_pc' = "done"
\* main's call end_service() on leaving its serving loop
ExitStep == main_pc = "serving" /\ main_pc' # "serving"

\* what end_service must leave alone when no listener is active
ServiceVars == <<site, auth_state, auth, auth_event, challenge, rpcVars, plugins,
                 tasks>>

\* C30: every call of end_service made while a listener is active tears it
\* down, sets the state Closing and clears the secret; made while none is
\* active it changes nothing, and raises RuntimeError when called with
\* error=True (the teardown task of /kill, main on leaving its loop) and
\* returns when called with error=False (main aborting the startup).
C30_EndService ==
  [][ /\ (KillRuns \/ AbortStep \/ ExitStep) =>
           IF site THEN ~site' /\ auth_state' = "Closing" /\ auth' = None
                   ELSE UNCHANGED ServiceVars
      /\ (KillRuns /\ ~site) => task_exc' = "RuntimeError"
      /\ (KillRuns /\ site) =>
           task_exc' = IF Head(kill_sched) THEN None ELSE "RuntimeError"
      /\ ExitStep => main_pc' = IF site THEN "done" ELSE "raised"
      /\ AbortStep => (main_pc' = "done" /\ task_exc' = task_exc)
    ]_vars

\* C30 witness: a session that held a secret was torn down by the ungraceful
\* teardown of /kill, whose second end_service raised, and main, aborting its
\* startup afterwards or before, found or left no listener and returned
C30_Witness ==
  /\ main_pc = "done" /\ task_exc = "RuntimeError"
  /\ ~site /\ auth_state = "Closing" /\ auth = None
  /\ resp.secret # None

\* an edge of the auth state as the handshake declares it, with the step that
\* may take it
DeclaredEdge ==
  \/ auth_state = None /\ auth_state' = "WaitingForClient"
  \/ /\ auth_state = "WaitingForClient" /\ auth_state' = "PendingPingPong"
     /\ Answers("/auth") /\ resp'.status = 200
  \/ /\ auth_state = "PendingPingPong"
     /\ auth_state' \in {"AuthOK", "ClientServerMismatch"}
     /\ Answers("/pingpong")
  \/ /\ auth_state = "PendingPingPong" /\ auth_state' = "PingPongFailed"
     /\ main_pc = "waiting" /\ main_pc' = "aborting"
  \/ /\ auth_state' = "Closing"
     /\ (KillRuns \/ AbortStep \/ ExitStep)

\* C31: the auth state changes only along the declared edges (to
\* PendingPingPong by an accepted /auth, from PendingPingPong to AuthOK or
\* ClientServerMismatch by /pingpong, to PingPongFailed by the timeout of the
\* handshake wait, to Closing by shutdown), and never leaves Closing.
C31_DeclaredEdgesOnly ==
  [][ auth_state' # auth_state => (auth_state # "Closing" /\ DeclaredEdge) ]_vars

\* a /pingpong has been checked against the stored challenge: only
\* route_pingpong's comparison sets these two states
ChallengeChecked == auth_state \in {"AuthOK", "ClientServerMismatch"}

\* C32: once a /pingpong has been checked against the challenge, matching or
\* not, a later /pingpong that carries the same challenge value is not
\* answered as a successful handshake and does not change the auth state.
C32_ChallengeSingleUse ==
  [][ (/\ ChallengeChecked
       /\ Answers("/pingpong")
       /\ resp'.chal = challenge) =>
        (resp'.status # 204 /\ auth_state' = auth_state) ]_vars

\* a poll of the adapter that is handed entries
AdapterPolls == delivered' # delivered

\* C33: every call whose entry the adapter receives from a poll while the call
\* is pending is acknowledged by that poll: its nonce leaves the pending table
\* and its future holds a result.
C33_PolledCallsAcknowledged ==
  [][ AdapterPolls =>
        \A k \in DOMAIN waiting_for_poll :
          \E n \in {waiting_for_poll[k].nonce} :
            (n # 0 /\ n \in nonces) =>
              (n \notin nonces' /\ calls'[n].fut = "result") ]_vars

\* C34: every entry of the outbound queue that carries a nonce belongs to a
\* call that is still pending: its nonce is in the pending table and its
\* future is unresolved (no entry of an acknowledged or timed-out call stays
\* queued for delivery).
C34_QueuedCallsPending ==
  \A k \in DOMAIN waiting_for_poll :
    \E n \in {waiting_for_poll[k].nonce} :
      n # 0 => (n \in nonces /\ calls[n].fut = "pending")

\* C35: once the session is AuthOK no /auth or /pingpong request, whatever its
\* header, code or challenge, changes the auth state.
C35_AuthOKStable ==
  [][ (/\ auth_state = "AuthOK"
       /\ (Answers("/auth") \/ Answers("/pingpong"))) =>
        auth_state' = "AuthOK" ]_vars

\* C36: after reload_plugin has completed for a registered plugin, the plugin
\* is marked loaded exactly when the reload succeeded.
C36_LoadedFlagTracksReload ==
  (/\ lastOp.op = "reload"
   /\ lastOp.kind \in {"reloaded", "reload_failure"}
   /\ lastOp.sid \in RegIds(plugins)) =>
    (PluginOf(lastOp.sid).is_loaded <=> lastOp.kind = "reloaded")

\* C37: every handler a registered plugin's listener table holds for an event
\* other than "error" was declared by that plugin's own entry unit, for that
\* event: no plugin's injector attaches a handler another plugin declared.
C37_ListenersIsolated ==
  \A i \in DOMAIN plugins :
    \A e \in Events \ {"error"} :
      \A k \in DOMAIN plugins[i].listeners[e] :
        /\ plugins[i].listeners[e][k].h = plugins[i].pd
        /\ e \in Declares(plugins[i].pd)

\* the state toggles handle_inbound has handled for plugin sid
TogglesHandled(sid) ==
  { t \in DOMAIN tasks : /\ tasks[t].kind = "inbound" /\ tasks[t].st = "done"
                         /\ "plugin_id" \in DOMAIN tasks[t].p
                         /\ tasks[t].p.plugin_id = sid }

\* C38: a registered plugin for which the daemon has handled a state payload
\* (type 2 or 6), every one of them with state true, is enabled.
C38_ToggleEnables ==
  \A sid \in RegIds(plugins) :
    (/\ TogglesHandled(sid) # {}
     /\ \A t \in TogglesHandled(sid) : tasks[t].p.data) =>
      PluginOf(sid).enabled

\* C39: an accepted /kill is answered 204 with the listener still up and its
\* teardown only scheduled; the teardown task, run while the listener is up,
\* tears it down, leaves the session Closing with the secret cleared, and
\* ends without an exception, in the graceful and the ungraceful mode alike.
C39_KillTeardownCompletes ==
  [][ /\ (Answers("/kill") /\ resp'.status = 204) =>
           (/\ kill_sched' # kill_sched
            /\ UNCHANGED <<site, auth_state, auth, task_exc>>)
      /\ (KillRuns /\ site) =>
           (/\ ~site' /\ auth_state' = "Closing" /\ auth' = None
            /\ task_exc' = None)
    ]_vars

\* C40: once the adapter has stopped polling and renewing its stamp, main
\* eventually leaves its serving loop, whatever state the lockfile is in.
C40_WatchdogExits == <>(main_pc # "serving")

\* C22: at no time are two load or reload requests inside the import and
\* initialization of the same plugin entry unit.
C22_OneInitAtATime ==
  \A a, b \in DOMAIN inflight :
    a # b => inflight[a].unit # inflight[b].unit

\* ------------------------------------------------------- the whole daemon
Next ==
  \/ NextAuth
  \/ NextIssue
  \/ NextPoll
  \/ NextReject
  \/ NextHandshake
  \/ NextRpc
  \/ NextPlug
  \/ NextDispatch
  \/ NextParse
  \/ NextIface
  \/ NextEject
  \/ NextConc
  \/ NextAdapter
  \/ NextLoads
  \/ NextToggle
  \/ NextWatch
  \/ WriteStamp
  \/ \E h \in Headers, dir \in DirectoryInputs, id \in PluginIdInputs,
        imp \in ImportOutcomes, ini \in InitOutcomes :
        InboundLoadPlugin(h, dir, id, imp, ini)
  \/ \E h \in Headers, c \in KillCodes \cup {NoCode}, g \in BOOLEAN : RouteKill(h, c, g)

Spec == Init /\ [][Next]_vars

====
